---- MODULE Spec2Model ----
(***************************************************************************)
(* Workout execution engine (hooks/useWorkoutExecution.ts) and telemetry   *)
(* recorder (routes/index.tsx) of just-ride, as state machines.            *)
(*                                                                         *)
(* A React event (a call of the hook's API, a timer firing, a prop change) *)
(* is one step: the handler's state updates, the render, and the effects   *)
(* of that commit in declaration order, repeated until no effect changes   *)
(* state.  Effects of one commit read the state of that render (their      *)
(* closure) and the refs as they are at that moment.  Promise              *)
(* continuations that wait for I/O are steps of their own.                 *)
(***************************************************************************)
EXTENDS Integers, Sequences, FiniteSets, TLC

\* number | null: watts and seconds are >= 0, null is modelled as -1
NULL == -1

(***************************************************************************)
(* Bounds                                                                  *)
(***************************************************************************)
\* the hook's rampUpdateIntervalSeconds option (its default is 15)
rampUpdateIntervalSeconds == 2
\* durations of the segments of the workouts below
SteadySeconds == 2
RampSeconds == 3
\* at most this many set-target calls awaiting their result
MaxErgInFlight == 2
\* at most this many changes of the livePowerWatts prop in one behaviour
MaxTelemetryUpdates == 1
\* samples per chunk (workoutSampleChunkSize is 60 in routes/index.tsx)
workoutSampleChunkSize == 2
\* at most this many workouts started in one behaviour
MaxRuns == 2
\* at most this many recorder objects referred to at the same time
MaxRecorders == 3
\* at most this many discardWorkoutSession calls in one behaviour
MaxDiscards == 1
\* power notifications of the trainer in one behaviour
MaxPowerNotifications == 2
\* the longest of the one-ramp workouts
MaxRampSeconds == 4

(***************************************************************************)
(* Workout definitions (workouts/powerZones.ts).  ftpLow and ftpHigh are   *)
(* fractions of FTP in the source; here they are percentages, so that the  *)
(* arithmetic stays in the integers.                                       *)
(***************************************************************************)
RECURSIVE SumDurations(_, _)
SumDurations(parts, n) ==
  IF n = 0 THEN 0 ELSE SumDurations(parts, n - 1) + parts[n].durationSeconds

\* parseSegments: startSecond is the running sum of the durations before
parseSegments(parts) ==
  [i \in 1..Len(parts) |->
     [kind |-> parts[i].kind,
      durationSeconds |-> parts[i].durationSeconds,
      ftpLow |-> parts[i].ftpLow,
      ftpHigh |-> parts[i].ftpHigh,
      startSecond |-> SumDurations(parts, i - 1)]]

parseWorkout(parts) ==
  [segments |-> parseSegments(parts),
   totalDurationSeconds |-> SumDurations(parts, Len(parts))]

Part(k, d, lo, hi) ==
  [kind |-> k, durationSeconds |-> d, ftpLow |-> lo, ftpHigh |-> hi]

\* 1: steady at 50%, then a ramp 50% -> 100%.
\* 2: a short ramp 100% -> 50%, then steady at 50%.
ScheduledWorkouts ==
  << parseWorkout(<< Part("steady", SteadySeconds, 50, 50),
                     Part("ramp", RampSeconds, 50, 100) >>),
     parseWorkout(<< Part("ramp", RampSeconds - 1, 100, 50),
                     Part("steady", SteadySeconds - 1, 50, 50) >>) >>

\* workouts of one ramp: every duration from 1 to MaxRampSeconds with
\* each pair of ends
RampEnds == << << 50, 100 >>, << 100, 50 >>, << 55, 120 >> >>
RampWorkouts ==
  [i \in 1..(MaxRampSeconds * Len(RampEnds)) |->
     LET ends == RampEnds[((i - 1) \div MaxRampSeconds) + 1]
     IN parseWorkout(<< Part("ramp", ((i - 1) % MaxRampSeconds) + 1,
                             ends[1], ends[2]) >>)]

\* the workout ridden with a trainer: steady at 50%, then a short ramp
\* 50% -> 100%
TrainerWorkouts ==
  << parseWorkout(<< Part("steady", SteadySeconds, 50, 50),
                     Part("ramp", RampSeconds - 1, 50, 100) >>) >>

Workouts == ScheduledWorkouts \o RampWorkouts \o TrainerWorkouts

\* the workouts started from Home: the short one
SelectableWorkoutIds == {2}

WorkoutIds == 1..Len(ScheduledWorkouts)
RampWorkoutIds ==
  (Len(ScheduledWorkouts) + 1)..(Len(ScheduledWorkouts) + Len(RampWorkouts))
TrainerWorkoutIds ==
  (Len(ScheduledWorkouts) + Len(RampWorkouts) + 1)..Len(Workouts)
FtpValues == {200}
RampFtpValues == {1, 150, 333}
PowerValues == {NULL, 150}

(***************************************************************************)
(* Pure functions of useWorkoutExecution.ts                                *)
(***************************************************************************)
Max(a, b) == IF a >= b THEN a ELSE b
Min(a, b) == IF a <= b THEN a ELSE b

\* Math.round(num / den) for num >= 0, den > 0: halves round up
MathRound(num, den) == (2 * num + den) \div (2 * den)

clamp(value, lo, hi) == Min(hi, Max(lo, value))

RECURSIVE ScanSegments(_, _, _)
ScanSegments(segments, boundedElapsed, index) ==
  IF index >= Len(segments) THEN -1
  ELSE LET segment == segments[index + 1]
           segmentEnd == segment.startSecond + segment.durationSeconds
       IN IF boundedElapsed >= segment.startSecond /\ boundedElapsed < segmentEnd
          THEN index
          ELSE ScanSegments(segments, boundedElapsed, index + 1)

\* workout is 0 for null, else an index of Workouts; the result is 0-based
getSegmentIndexForElapsed(workout, elapsed) ==
  IF workout = 0 \/ Len(Workouts[workout].segments) = 0 THEN -1
  ELSE ScanSegments(Workouts[workout].segments, Max(0, elapsed), 0)

isRampSegment(segment) ==
  segment.kind = "ramp" /\ segment.ftpLow # segment.ftpHigh

\* (variant: every second is a dispatch second)
getDispatchSecondEverySecond(segment, secondsIntoSegment, interval) ==
  IF segment.durationSeconds <= 0 THEN NULL ELSE secondsIntoSegment

getDispatchSecond(segment, secondsIntoSegment, interval) ==
  IF segment.durationSeconds <= 0 THEN NULL
  ELSE IF secondsIntoSegment = 0 THEN 0
  ELSE IF ~isRampSegment(segment) THEN 0
  ELSE LET rampInterval == Max(1, interval)
           segmentEndSecond == Max(0, segment.durationSeconds - 1)
       IN IF secondsIntoSegment >= segmentEndSecond THEN segmentEndSecond
          ELSE (secondsIntoSegment \div rampInterval) * rampInterval

\* (variant: the ramp's progress is measured against durationSeconds)
getSegmentTargetWattsOverDuration(segment, secondsIntoSegment, ftpValue) ==
  LET safeFtp == IF ftpValue > 0 THEN ftpValue ELSE 1
  IN IF ~isRampSegment(segment)
     THEN MathRound(segment.ftpLow * safeFtp, 100)
     ELSE LET boundedSeconds ==
                clamp(secondsIntoSegment, 0, Max(0, segment.durationSeconds - 1))
              denominator == Max(1, segment.durationSeconds)
          IN MathRound((segment.ftpLow * denominator
                          + (segment.ftpHigh - segment.ftpLow) * boundedSeconds)
                         * safeFtp,
                       100 * denominator)

getSegmentTargetWatts(segment, secondsIntoSegment, ftpValue) ==
  LET safeFtp == IF ftpValue > 0 THEN ftpValue ELSE 1
  IN IF ~isRampSegment(segment)
     THEN MathRound(segment.ftpLow * safeFtp, 100)
     ELSE LET boundedSeconds ==
                clamp(secondsIntoSegment, 0, Max(0, segment.durationSeconds - 1))
              denominator == Max(1, segment.durationSeconds - 1)
          IN MathRound((segment.ftpLow * denominator
                          + (segment.ftpHigh - segment.ftpLow) * boundedSeconds)
                         * safeFtp,
                       100 * denominator)

(***************************************************************************)
(* State                                                                   *)
(***************************************************************************)
VARIABLES
  \* useState of useWorkoutExecution (activeWorkout: 0 is null)
  activeWorkout, isRunning, isPaused, isCompleted, elapsedSeconds,
  currentTargetWatts, recordedSamples,
  \* useRef of useWorkoutExecution
  lastSentTargetRef, lastSampleElapsedRef,
  \* number of window.setInterval timers armed by the tick effect
  intervalTimers,
  \* the hook's inputs
  ftp, livePowerWatts,
  \* the wattages of the setErgTargetValue calls whose promise has not settled
  ergInFlight,
  \* history: the number of changes of livePowerWatts so far, and whether
  \* pause, skipSegment, end or stop was called since the last start
  telemetryUpdates, interrupted,
  \* history of the set-target calls since the guard was last cleared: the
  \* last call issued, the wattage of the last one acknowledged as
  \* successful, and how the last one to settle ended
  lastErgWrite, lastAckedWatts, lastErgResult,
  \* history of pause and resume: where pause() was called, where resume()
  \* was called after it, and the first timer firing after that resume()
  pausedAt, resumedFrom, firstTick,
  \* Home: state
  pendingWorkoutStart, isWorkoutLifecycleActive, activeSessionId,
  completedSessionId, isFinalizingWorkout, recordingErrorMessage,
  isDiscardingWorkout,
  \* Home: whether the account may use the fake telemetry source, and the
  \* trainer's connectionState
  canUseFakeTelemetry, connectionState,
  \* the backend's tables
  workoutSessions, workoutSampleChunks,
  \* Home: the recorder objects and the refs
  recorders, recorderRef, manualEndRequestedRef,
  hasFinalizedCurrentWorkoutRef, isFinalizingWorkoutRef,
  pendingFinalizeStatusRef,
  \* the backend calls awaiting their result: startWorkoutSession (by the
  \* id of the session it will create), finalizeWorkoutSession and
  \* discardWorkoutSession (the id of the session, or null)
  sessionRequests, finalizeRequest, discardRequest,
  \* history: the number of workouts started, and a log in the order of the
  \* events: every append and finalize call, each with the number of appends
  \* of the same session that had not settled when it was issued; every
  \* session id returned by startWorkoutSession ("created"); and the end of
  \* every workout with the status asked for ("ended", under the id of the
  \* session the workout asked for)
  sessionsStarted, requestLog,
  \* useState and useRef of useTrainerBluetooth: the heart rate, the kind
  \* of the power characteristic, the value of the ERG strip, whether a
  \* control point was found, and the status line
  heartRateBpm, payloadTypeRef, ergTargetWatts, controlCharacteristicRef,
  statusMessage,
  \* useRef of useTrainerBluetooth: whether the device and the power
  \* characteristic are held
  trainerDeviceRef, powerCharacteristicRef,
  \* the trainer: whether its GATT server is connected, and whether the
  \* hook's listeners are on its power characteristic and on the device
  gattConnected, powerListener, disconnectListener,
  \* the await connectTrainer() is at before its 'connected' line, and the
  \* one it is at after it
  connectStep, controlStep,
  \* the payloads written to the control point whose response is awaited
  ftmsInFlight,
  \* history: the last notification with what its decoder returned, and
  \* the last payload written with a response
  notification, ftmsWritten,
  \* history: the last call of a client to the backend and what it returned
  backendCall

hookVars ==
  << activeWorkout, isRunning, isPaused, isCompleted, elapsedSeconds,
     currentTargetWatts, recordedSamples, lastSentTargetRef,
     lastSampleElapsedRef, intervalTimers, ftp, livePowerWatts, ergInFlight,
     lastErgWrite, lastAckedWatts, lastErgResult >>

hookHistory ==
  << telemetryUpdates, interrupted, pausedAt, resumedFrom, firstTick >>

deviceVars ==
  << trainerDeviceRef, powerCharacteristicRef, gattConnected, powerListener,
     disconnectListener, connectStep, controlStep >>

bluetoothVars ==
  << heartRateBpm, payloadTypeRef, ergTargetWatts, controlCharacteristicRef,
     statusMessage, ftmsInFlight, notification, ftmsWritten, deviceVars >>

pageVars ==
  << pendingWorkoutStart, isWorkoutLifecycleActive, activeSessionId,
     completedSessionId, isFinalizingWorkout, recordingErrorMessage,
     isDiscardingWorkout, canUseFakeTelemetry, connectionState,
     recorders, recorderRef, manualEndRequestedRef,
     hasFinalizedCurrentWorkoutRef, isFinalizingWorkoutRef,
     pendingFinalizeStatusRef, sessionRequests, finalizeRequest,
     discardRequest, sessionsStarted, requestLog,
     workoutSessions, workoutSampleChunks >>

homeVars == << pageVars, bluetoothVars, backendCall >>

NoErgWrite ==
  [watts |-> NULL, workout |-> 0, elapsedSeconds |-> NULL,
   acknowledged |-> NULL, rewrite |-> FALSE, afterFailure |-> FALSE]

NoPause == [elapsedSeconds |-> NULL, samples |-> 0]
NoTick == [from |-> NULL, to |-> NULL]

vars == << hookVars, hookHistory, homeVars >>

\* the hook as one record: what a render sees, the refs, and what the
\* effects hand to the outside (emitted: the onSample calls of this step)
Hook ==
  [activeWorkout |-> activeWorkout, isRunning |-> isRunning,
   isPaused |-> isPaused, isCompleted |-> isCompleted,
   elapsedSeconds |-> elapsedSeconds,
   currentTargetWatts |-> currentTargetWatts,
   recordedSamples |-> recordedSamples, ftp |-> ftp,
   livePowerWatts |-> livePowerWatts,
   lastSentTargetRef |-> lastSentTargetRef,
   lastSampleElapsedRef |-> lastSampleElapsedRef,
   intervalTimers |-> intervalTimers, ergInFlight |-> ergInFlight,
   emitted |-> << >>, lastErgWrite |-> lastErgWrite,
   lastAckedWatts |-> lastAckedWatts, lastErgResult |-> lastErgResult,
   \* the setErgTargetValue prop: the data source's callback is a new one
   \* whenever isUsingFakeTelemetry changes
   setErgTargetValue |->
     IF canUseFakeTelemetry /\ isWorkoutLifecycleActive
          /\ connectionState # "connected"
     THEN "fake" ELSE "trainer"]

\* the history of set-target calls starts again when the guard is cleared
ClearErgHistory(h) ==
  [h EXCEPT !.lastErgWrite = NoErgWrite, !.lastAckedWatts = NULL,
            !.lastErgResult = "none"]

\* what a render reads: the state and the props
Rendered(h) ==
  << h.activeWorkout, h.isRunning, h.isPaused, h.isCompleted,
     h.elapsedSeconds, h.currentTargetWatts, h.recordedSamples, h.ftp,
     h.livePowerWatts >>

activeSegmentIndexOf(h) ==
  getSegmentIndexForElapsed(h.activeWorkout, h.elapsedSeconds)

totalDurationSecondsOf(h) ==
  IF h.activeWorkout = 0 THEN 0
  ELSE Workouts[h.activeWorkout].totalDurationSeconds

(***************************************************************************)
(* The four effects of useWorkoutExecution.  prev is the previous render,  *)
(* snap the render whose effects run, acc the state as the effects of this *)
(* commit have left it so far.                                             *)
(***************************************************************************)
clearInterval(timers) == 0

\* (variant: isPaused and isRunning are missing from the dependencies)
TickEffectStaleDeps(prev, snap, acc) ==
  LET deps(h) == << h.activeWorkout, h.isCompleted >>
  IN IF deps(prev) = deps(snap) THEN acc
     ELSE IF snap.activeWorkout = 0 \/ ~snap.isRunning \/ snap.isPaused
              \/ snap.isCompleted
          THEN [acc EXCEPT !.intervalTimers = clearInterval(@)]
          ELSE [acc EXCEPT !.intervalTimers = clearInterval(@) + 1]

\* (variant: the effect returns no cleanup, so no interval is cleared)
TickEffectWithoutCleanup(prev, snap, acc) ==
  LET deps(h) == << h.activeWorkout, h.isCompleted, h.isPaused, h.isRunning >>
  IN IF deps(prev) = deps(snap) THEN acc
     ELSE IF snap.activeWorkout = 0 \/ ~snap.isRunning \/ snap.isPaused
              \/ snap.isCompleted
          THEN acc
          ELSE [acc EXCEPT !.intervalTimers = Min(@ + 1, 2)]

TickEffect(prev, snap, acc) ==
  LET deps(h) == << h.activeWorkout, h.isCompleted, h.isPaused, h.isRunning >>
  IN IF deps(prev) = deps(snap) THEN acc
     ELSE IF snap.activeWorkout = 0 \/ ~snap.isRunning \/ snap.isPaused
              \/ snap.isCompleted
          THEN [acc EXCEPT !.intervalTimers = clearInterval(@)]
          ELSE [acc EXCEPT !.intervalTimers = clearInterval(@) + 1]

\* (variant: the completion effect leaves the target as it is)
CompletionEffectKeepsTarget(prev, snap, acc) ==
  LET deps(h) == << h.activeWorkout, h.elapsedSeconds, h.isCompleted >>
  IN IF deps(prev) = deps(snap) THEN acc
     ELSE IF snap.activeWorkout = 0 \/ snap.isCompleted THEN acc
     ELSE IF snap.elapsedSeconds < totalDurationSecondsOf(snap) THEN acc
     ELSE [acc EXCEPT !.elapsedSeconds = totalDurationSecondsOf(snap),
                      !.isRunning = FALSE,
                      !.isPaused = FALSE,
                      !.isCompleted = TRUE]

CompletionEffect(prev, snap, acc) ==
  LET deps(h) == << h.activeWorkout, h.elapsedSeconds, h.isCompleted >>
  IN IF deps(prev) = deps(snap) THEN acc
     ELSE IF snap.activeWorkout = 0 \/ snap.isCompleted THEN acc
     ELSE IF snap.elapsedSeconds < totalDurationSecondsOf(snap) THEN acc
     ELSE [acc EXCEPT !.elapsedSeconds = totalDurationSecondsOf(snap),
                      !.isRunning = FALSE,
                      !.isPaused = FALSE,
                      !.isCompleted = TRUE,
                      !.currentTargetWatts = NULL]

\* setErgTargetValue(nextTarget) is called: the write is in flight
\* the calls in flight settle in any order, so they are kept as a bag: a
\* sequence in ascending order of wattage
InsertSorted(seq, value) ==
  LET before == SelectSeq(seq, LAMBDA x : x <= value)
      after == SelectSeq(seq, LAMBDA x : x > value)
  IN before \o << value >> \o after

IssueErgWrite(snap, acc, nextTarget) ==
  [acc EXCEPT
     !.ergInFlight = InsertSorted(@, nextTarget),
     !.lastErgWrite =
        [watts |-> nextTarget,
         workout |-> snap.activeWorkout,
         elapsedSeconds |-> snap.elapsedSeconds,
         acknowledged |-> acc.lastAckedWatts,
         rewrite |-> (@.watts = nextTarget),
         afterFailure |-> (acc.lastErgResult = "failed")]]

\* lines 546-554: whether the computed target is written
\* (variant: the comparison with the guard before the write is missing)
shouldIssueWriteUnguarded(lastSentTarget, nextTarget, isScheduledDispatch) ==
  LET needsRetry == lastSentTarget # nextTarget
  IN IF ~isScheduledDispatch /\ ~needsRetry THEN FALSE ELSE TRUE

shouldIssueWrite(lastSentTarget, nextTarget, isScheduledDispatch) ==
  LET needsRetry == lastSentTarget # nextTarget
  IN IF ~isScheduledDispatch /\ ~needsRetry THEN FALSE
     ELSE IF lastSentTarget = nextTarget THEN FALSE
     ELSE TRUE

\* (variant: the effect dispatches while the workout is paused as well)
DispatchEffectWhilePaused(prev, snap, acc) ==
  LET deps(h) == << activeSegmentIndexOf(h), h.activeWorkout, h.elapsedSeconds,
                    h.ftp, h.isCompleted, h.isPaused, h.isRunning,
                    h.setErgTargetValue >>
  IN IF deps(prev) = deps(snap) THEN acc
     ELSE IF snap.activeWorkout = 0
              \/ snap.isCompleted \/ activeSegmentIndexOf(snap) < 0
          THEN acc
     ELSE
       LET segment ==
             Workouts[snap.activeWorkout].segments[activeSegmentIndexOf(snap) + 1]
           secondsIntoSegment == Max(0, snap.elapsedSeconds - segment.startSecond)
           dispatchSecond ==
             getDispatchSecond(segment, secondsIntoSegment, rampUpdateIntervalSeconds)
       IN IF dispatchSecond = NULL THEN acc
          ELSE
            LET nextTarget == getSegmentTargetWatts(segment, dispatchSecond, snap.ftp)
                acc1 == [acc EXCEPT !.currentTargetWatts = nextTarget]
                isScheduledDispatch == dispatchSecond = secondsIntoSegment
            IN IF shouldIssueWrite(acc.lastSentTargetRef, nextTarget,
                                   isScheduledDispatch)
               THEN IssueErgWrite(snap, acc1, nextTarget)
               ELSE acc1

DispatchEffect(prev, snap, acc) ==
  LET deps(h) == << activeSegmentIndexOf(h), h.activeWorkout, h.elapsedSeconds,
                    h.ftp, h.isCompleted, h.isPaused, h.isRunning,
                    h.setErgTargetValue >>
  IN IF deps(prev) = deps(snap) THEN acc
     ELSE IF snap.activeWorkout = 0 \/ ~snap.isRunning \/ snap.isPaused
              \/ snap.isCompleted \/ activeSegmentIndexOf(snap) < 0
          THEN acc
     ELSE
       LET segment ==
             Workouts[snap.activeWorkout].segments[activeSegmentIndexOf(snap) + 1]
           secondsIntoSegment == Max(0, snap.elapsedSeconds - segment.startSecond)
           dispatchSecond ==
             getDispatchSecond(segment, secondsIntoSegment, rampUpdateIntervalSeconds)
       IN IF dispatchSecond = NULL THEN acc
          ELSE
            LET nextTarget == getSegmentTargetWatts(segment, dispatchSecond, snap.ftp)
                acc1 == [acc EXCEPT !.currentTargetWatts = nextTarget]
                isScheduledDispatch == dispatchSecond = secondsIntoSegment
            IN IF shouldIssueWrite(acc.lastSentTargetRef, nextTarget,
                                   isScheduledDispatch)
               THEN IssueErgWrite(snap, acc1, nextTarget)
               ELSE acc1

SampleEffect(snap, acc) ==
  IF snap.activeWorkout = 0 \/ ~snap.isRunning \/ snap.isPaused
       \/ snap.isCompleted \/ snap.elapsedSeconds = acc.lastSampleElapsedRef
  THEN acc
  ELSE LET sample == [elapsedSeconds |-> snap.elapsedSeconds,
                      segmentIndex |-> activeSegmentIndexOf(snap),
                      targetWatts |-> snap.currentTargetWatts,
                      livePowerWatts |-> snap.livePowerWatts]
       IN [acc EXCEPT !.lastSampleElapsedRef = snap.elapsedSeconds,
                      !.recordedSamples = Append(@, sample),
                      !.emitted = Append(@, sample)]

EffectsPass(prev, snap) ==
  SampleEffect(snap,
    DispatchEffect(prev, snap,
      CompletionEffect(prev, snap,
        TickEffect(prev, snap, snap))))

\* render and run effects until an effects pass leaves the state as rendered
RECURSIVE Settle(_, _)
Settle(prev, snap) ==
  LET next == EffectsPass(prev, snap)
  IN IF Rendered(next) = Rendered(snap) THEN next ELSE Settle(snap, next)

(***************************************************************************)
(* The hook's API: the state and refs right after the call                 *)
(***************************************************************************)
start(h, workout) ==
  [h EXCEPT !.activeWorkout = workout, !.isRunning = TRUE, !.isPaused = FALSE,
            !.isCompleted = FALSE, !.elapsedSeconds = 0,
            !.currentTargetWatts = NULL, !.recordedSamples = << >>,
            !.lastSentTargetRef = NULL, !.lastSampleElapsedRef = -1]

pause(h) == [h EXCEPT !.isPaused = TRUE, !.isRunning = FALSE]

\* (variant: resume() clears the mark of the second sampled last)
resumeClearsWatermark(h) ==
  [h EXCEPT !.isPaused = FALSE, !.isRunning = TRUE,
            !.lastSampleElapsedRef = -1]

resume(h) == [h EXCEPT !.isPaused = FALSE, !.isRunning = TRUE]

end(h) ==
  [h EXCEPT !.isRunning = FALSE, !.isPaused = FALSE, !.isCompleted = TRUE,
            !.currentTargetWatts = NULL]

stop(h) ==
  [h EXCEPT !.activeWorkout = 0, !.isRunning = FALSE, !.isPaused = FALSE,
            !.isCompleted = FALSE, !.elapsedSeconds = 0,
            !.currentTargetWatts = NULL,
            !.lastSentTargetRef = NULL, !.lastSampleElapsedRef = -1]

\* (variant: the jump goes to the start of the segment itself)
skipSegmentToOwnStart(h) ==
  IF h.activeWorkout = 0 \/ activeSegmentIndexOf(h) < 0 THEN h
  ELSE LET nextIndex == activeSegmentIndexOf(h) + 1
           segments == Workouts[h.activeWorkout].segments
       IN IF nextIndex >= Len(segments)
          THEN [h EXCEPT !.elapsedSeconds = totalDurationSecondsOf(h),
                         !.isRunning = FALSE, !.isPaused = FALSE,
                         !.isCompleted = TRUE, !.currentTargetWatts = NULL]
          ELSE [h EXCEPT !.elapsedSeconds = segments[nextIndex].startSecond]

skipSegment(h) ==
  IF h.activeWorkout = 0 \/ activeSegmentIndexOf(h) < 0 THEN h
  ELSE LET nextIndex == activeSegmentIndexOf(h) + 1
           segments == Workouts[h.activeWorkout].segments
       IN IF nextIndex >= Len(segments)
          THEN [h EXCEPT !.elapsedSeconds = totalDurationSecondsOf(h),
                         !.isRunning = FALSE, !.isPaused = FALSE,
                         !.isCompleted = TRUE, !.currentTargetWatts = NULL]
          ELSE [h EXCEPT !.elapsedSeconds = segments[nextIndex + 1].startSecond]

\* the setInterval callback
intervalCallback(h) ==
  [h EXCEPT !.elapsedSeconds =
     IF @ >= totalDurationSecondsOf(h) THEN @ ELSE @ + 1]

\* (variant: the guard is set whatever the result)
ergWriteSettledAnyResult(h, nextTarget, sent) ==
  [h EXCEPT !.lastSentTargetRef = nextTarget]

\* the continuation of the dispatch effect's async block
ergWriteSettled(h, nextTarget, sent) ==
  IF sent THEN [h EXCEPT !.lastSentTargetRef = nextTarget] ELSE h

RemoveAt(seq, i) ==
  [j \in 1..(Len(seq) - 1) |-> IF j < i THEN seq[j] ELSE seq[j + 1]]
(***************************************************************************)
(* The backend: the mutations on the tables workoutSessions and            *)
(* workoutSampleChunks.  The content of the tables is followed where the   *)
(* backend runs the calls (SpecTrainer, SpecBackend); elsewhere the        *)
(* backend is a service whose calls succeed or fail and the tables are     *)
(* left out.                                                               *)
(***************************************************************************)
chunkSizeLimit == 2 * workoutSampleChunkSize

\* a session id that is not in the table
NoSession ==
  [status |-> "none", sampleCount |-> 0, averagePowerWatts |-> NULL,
   maxPowerWatts |-> NULL, averageHeartRateBpm |-> NULL,
   maxHeartRateBpm |-> NULL, averageCadenceRpm |-> NULL,
   maxCadenceRpm |-> NULL]

normalizeSample(sample) ==
  [sample EXCEPT !.segmentIndex = Max(0, @)]

NormalizedSamples(samples) ==
  [i \in 1..Len(samples) |-> normalizeSample(samples[i])]

\* samples.sort by elapsedSeconds; samples of one elapsed second keep the
\* order of their timestamps, which is the order they were emitted in
InsertSample(sorted, sample) ==
  LET k == Cardinality({i \in 1..Len(sorted) :
                          sorted[i].elapsedSeconds <= sample.elapsedSeconds})
  IN  SubSeq(sorted, 1, k) \o << sample >> \o SubSeq(sorted, k + 1, Len(sorted))

RECURSIVE SortSamples(_)
SortSamples(samples) ==
  IF samples = << >> THEN << >>
  ELSE InsertSample(SortSamples(SubSeq(samples, 1, Len(samples) - 1)),
                    samples[Len(samples)])

startWorkoutSession(db, sessionId) ==
  [db EXCEPT !.workoutSessions[sessionId] =
     [NoSession EXCEPT !.status = "recording"]]

\* the mutation throws: the chunk is too large, the chunk index is
\* negative or there is no session
appendWorkoutSampleChunkThrows(db, sessionId, chunkIndex, samples) ==
  /\ samples # << >>
  /\ \/ Len(samples) > chunkSizeLimit
     \/ chunkIndex < 0
     \/ db.workoutSessions[sessionId].status = "none"

\* (variant: a chunk index that is already stored is stored again)
appendWorkoutSampleChunkAgain(db, sessionId, chunkIndex, samples) ==
  IF \/ samples = << >>
     \/ db.workoutSessions[sessionId].status # "recording"
  THEN db
  ELSE [db EXCEPT
          !.workoutSampleChunks =
             Append(@, [sessionId |-> sessionId, chunkIndex |-> chunkIndex,
                        samples |->
                           SortSamples(NormalizedSamples(samples))]),
          !.workoutSessions[sessionId].sampleCount = @ + Len(samples)]

appendWorkoutSampleChunk(db, sessionId, chunkIndex, samples) ==
  IF \/ samples = << >>
     \/ db.workoutSessions[sessionId].status # "recording"
     \/ \E i \in 1..Len(db.workoutSampleChunks) :
          /\ db.workoutSampleChunks[i].sessionId = sessionId
          /\ db.workoutSampleChunks[i].chunkIndex = chunkIndex
  THEN db
  ELSE [db EXCEPT
          !.workoutSampleChunks =
             Append(@, [sessionId |-> sessionId, chunkIndex |-> chunkIndex,
                        samples |->
                           SortSamples(NormalizedSamples(samples))]),
          !.workoutSessions[sessionId].sampleCount = @ + Len(samples)]

\* the totals before the loops
NoTotals ==
  [sampleCount |-> 0, powerSum |-> 0, powerCount |-> 0,
   maxPowerWatts |-> NULL, heartRateSum |-> 0, heartRateCount |-> 0,
   maxHeartRateBpm |-> NULL, cadenceSum |-> 0, cadenceCount |-> 0,
   maxCadenceRpm |-> NULL]

\* (variant: a sample without the metric counts as a reading of 0)
CountMetricOfNulls(totals, value, sum, count, max) ==
  LET reading == IF value = NULL THEN 0 ELSE value
  IN [totals EXCEPT ![sum] = @ + reading,
                    ![count] = @ + 1,
                    ![max] = IF @ = NULL THEN reading ELSE Max(@, reading)]

\* if (typeof sample.<metric> === 'number') { sum, count, max }
CountMetric(totals, value, sum, count, max) ==
  IF value = NULL THEN totals
  ELSE [totals EXCEPT ![sum] = @ + value,
                      ![count] = @ + 1,
                      ![max] = IF @ = NULL THEN value ELSE Max(@, value)]

\* (variant: the power statistics are taken from the targets)
RECURSIVE SampleTotalsOfTargets(_, _)
SampleTotalsOfTargets(samples, totals) ==
  IF samples = << >> THEN totals
  ELSE LET sample == Head(samples)
           counted == [totals EXCEPT !.sampleCount = @ + 1]
           power == CountMetric(counted, sample.targetWatts,
                                "powerSum", "powerCount", "maxPowerWatts")
           heartRate == CountMetric(power, sample.heartRateBpm,
                                    "heartRateSum", "heartRateCount",
                                    "maxHeartRateBpm")
       IN SampleTotalsOfTargets(Tail(samples),
            CountMetric(heartRate, sample.cadenceRpm,
                        "cadenceSum", "cadenceCount", "maxCadenceRpm"))

\* the loops of finalizeWorkoutSession over the chunks and their samples
RECURSIVE SampleTotals(_, _)
SampleTotals(samples, totals) ==
  IF samples = << >> THEN totals
  ELSE LET sample == Head(samples)
           counted == [totals EXCEPT !.sampleCount = @ + 1]
           power == CountMetric(counted, sample.powerWatts,
                                "powerSum", "powerCount", "maxPowerWatts")
           heartRate == CountMetric(power, sample.heartRateBpm,
                                    "heartRateSum", "heartRateCount",
                                    "maxHeartRateBpm")
       IN SampleTotals(Tail(samples),
            CountMetric(heartRate, sample.cadenceRpm,
                        "cadenceSum", "cadenceCount", "maxCadenceRpm"))

RECURSIVE ChunkTotals(_, _, _)
ChunkTotals(chunks, sessionId, totals) ==
  IF chunks = << >> THEN totals
  ELSE ChunkTotals(Tail(chunks), sessionId,
         IF Head(chunks).sessionId = sessionId
         THEN SampleTotals(Head(chunks).samples, totals)
         ELSE totals)

\* powerCount > 0 ? Math.round(powerSum / powerCount) : undefined
Average(sum, count) == IF count > 0 THEN MathRound(sum, count) ELSE NULL

\* (variant: a session that is not recording is finalized again)
finalizeWorkoutSessionAgain(db, sessionId, status) ==
  IF db.workoutSessions[sessionId].status = "none" THEN db
  ELSE LET totals ==
             ChunkTotals(db.workoutSampleChunks, sessionId, NoTotals)
       IN [db EXCEPT
             !.workoutSessions[sessionId] =
                [status |-> status,
                 sampleCount |-> totals.sampleCount,
                 averagePowerWatts |->
                    Average(totals.powerSum, totals.powerCount),
                 maxPowerWatts |-> totals.maxPowerWatts,
                 averageHeartRateBpm |->
                    Average(totals.heartRateSum, totals.heartRateCount),
                 maxHeartRateBpm |-> totals.maxHeartRateBpm,
                 averageCadenceRpm |->
                    Average(totals.cadenceSum, totals.cadenceCount),
                 maxCadenceRpm |-> totals.maxCadenceRpm]]

finalizeWorkoutSession(db, sessionId, status) ==
  IF db.workoutSessions[sessionId].status # "recording" THEN db
  ELSE LET totals ==
             ChunkTotals(db.workoutSampleChunks, sessionId, NoTotals)
       IN [db EXCEPT
             !.workoutSessions[sessionId] =
                [status |-> status,
                 sampleCount |-> totals.sampleCount,
                 averagePowerWatts |->
                    Average(totals.powerSum, totals.powerCount),
                 maxPowerWatts |-> totals.maxPowerWatts,
                 averageHeartRateBpm |->
                    Average(totals.heartRateSum, totals.heartRateCount),
                 maxHeartRateBpm |-> totals.maxHeartRateBpm,
                 averageCadenceRpm |->
                    Average(totals.cadenceSum, totals.cadenceCount),
                 maxCadenceRpm |-> totals.maxCadenceRpm]]

\* discardWorkoutSession: the session and its chunks are deleted
discardWorkoutSession(db, sessionId) ==
  [db EXCEPT
     !.workoutSampleChunks =
        SelectSeq(@, LAMBDA chunk : chunk.sessionId # sessionId),
     !.workoutSessions[sessionId] = NoSession]

\* chunks.slice().sort((left, right) => left.chunkIndex - right.chunkIndex)
InsertChunk(sorted, chunk) ==
  LET k == Cardinality({i \in 1..Len(sorted) :
                          sorted[i].chunkIndex <= chunk.chunkIndex})
  IN  SubSeq(sorted, 1, k) \o << chunk >> \o SubSeq(sorted, k + 1, Len(sorted))

RECURSIVE SortChunks(_)
SortChunks(chunks) ==
  IF chunks = << >> THEN << >>
  ELSE InsertChunk(SortChunks(SubSeq(chunks, 1, Len(chunks) - 1)),
                   chunks[Len(chunks)])

RECURSIVE FlatSamples(_)
FlatSamples(chunks) ==
  IF chunks = << >> THEN << >>
  ELSE Head(chunks).samples \o FlatSamples(Tail(chunks))

\* (variant: a session that is still recording is exported as well)
getWorkoutSessionForFitExportAnyStatus(db, sessionId) ==
  IF db.workoutSessions[sessionId].status = "none"
  THEN [error |-> "not found", samples |-> << >>]
  ELSE [error |-> "none",
        samples |->
           SortSamples(FlatSamples(SortChunks(
             SelectSeq(db.workoutSampleChunks,
                       LAMBDA chunk : chunk.sessionId = sessionId))))]

\* the query: what it throws, or the samples of the session in the order
\* of their elapsed seconds
getWorkoutSessionForFitExport(db, sessionId) ==
  IF db.workoutSessions[sessionId].status = "none"
  THEN [error |-> "not found", samples |-> << >>]
  ELSE IF db.workoutSessions[sessionId].status = "recording"
  THEN [error |-> "still recording", samples |-> << >>]
  ELSE [error |-> "none",
        samples |->
           SortSamples(FlatSamples(SortChunks(
             SelectSeq(db.workoutSampleChunks,
                       LAMBDA chunk : chunk.sessionId = sessionId))))]

\* assignRecordMetric(recordMesg, 'power', sample.powerWatts)
recordPower(sample) ==
  IF sample.powerWatts = NULL THEN NULL ELSE Max(0, sample.powerWatts)

\* (variant: a session without samples is exported as a file of no records)
generateWorkoutFitDownloadOfNoSamples(db, sessionId) ==
  LET exportData == getWorkoutSessionForFitExport(db, sessionId)
  IN  IF exportData.error # "none"
      THEN [error |-> exportData.error, records |-> << >>]
      ELSE [error |-> "none",
            records |-> [i \in 1..Len(exportData.samples) |->
                           recordPower(exportData.samples[i])]]

\* the action: what it throws, or the power fields of the record messages
\* of the FIT file
generateWorkoutFitDownload(db, sessionId) ==
  LET exportData == getWorkoutSessionForFitExport(db, sessionId)
  IN  IF exportData.error # "none"
      THEN [error |-> exportData.error, records |-> << >>]
      ELSE IF Len(exportData.samples) = 0
      THEN [error |-> "no samples", records |-> << >>]
      ELSE [error |-> "none",
            records |-> [i \in 1..Len(exportData.samples) |->
                           recordPower(exportData.samples[i])]]

(***************************************************************************)
(* Home (routes/index.tsx): the recorder and the calls to the backend.     *)
(* recorderRef.current is replaced by a new object at every start and at   *)
(* Done, while promise chains and running flushes still hold the old one,  *)
(* so the recorder objects live in a small heap and recorderRef is an      *)
(* index into it.  flushChain is the queue of the flushes chained on the   *)
(* object's promise and not finished; only its head can be running, and a  *)
(* running flush is one that awaits its appendWorkoutSampleChunk call.     *)
(* What follows an await that needs no I/O runs in the same step.          *)
(***************************************************************************)
FreshRecorder ==
  [sessionId |-> NULL, nextChunkIndex |-> 0, sampleBuffer |-> << >>,
   flushChain |-> << >>]

NoWaiter == [kind |-> "none", status |-> "none"]
NoRequest == [sessionId |-> NULL, status |-> "none"]

Home ==
  [pendingWorkoutStart |-> pendingWorkoutStart,
   isWorkoutLifecycleActive |-> isWorkoutLifecycleActive,
   activeSessionId |-> activeSessionId,
   completedSessionId |-> completedSessionId,
   isFinalizingWorkout |-> isFinalizingWorkout,
   recordingErrorMessage |-> recordingErrorMessage,
   isDiscardingWorkout |-> isDiscardingWorkout,
   canUseFakeTelemetry |-> canUseFakeTelemetry,
   connectionState |-> connectionState,
   recorders |-> recorders, recorderRef |-> recorderRef,
   manualEndRequestedRef |-> manualEndRequestedRef,
   hasFinalizedCurrentWorkoutRef |-> hasFinalizedCurrentWorkoutRef,
   isFinalizingWorkoutRef |-> isFinalizingWorkoutRef,
   pendingFinalizeStatusRef |-> pendingFinalizeStatusRef,
   sessionRequests |-> sessionRequests, finalizeRequest |-> finalizeRequest,
   discardRequest |-> discardRequest,
   sessionsStarted |-> sessionsStarted, requestLog |-> requestLog,
   workoutSessions |-> workoutSessions,
   workoutSampleChunks |-> workoutSampleChunks]

isUsingFakeTelemetry(H) ==
  H.canUseFakeTelemetry /\ H.isWorkoutLifecycleActive
    /\ H.connectionState # "connected"

RemoveOne(seq, value) ==
  LET i == CHOOSE j \in 1..Len(seq) : seq[j] = value
  IN [j \in 1..(Len(seq) - 1) |-> IF j < i THEN seq[j] ELSE seq[j + 1]]

\* setErgTargetValue of useWorkoutDataSource with the fake source: the call
\* this step has issued sets the fake service's set point, which becomes its
\* power reading, and resolves to true without I/O
fakeSetErgTargetValue(h) ==
  IF Len(h.ergInFlight) <= Len(ergInFlight) THEN h
  ELSE LET value == h.lastErgWrite.watts
       IN ergWriteSettled(
            [h EXCEPT !.ergInFlight = RemoveOne(@, value),
                      !.lastAckedWatts = value,
                      !.lastErgResult = "acknowledged",
                      !.livePowerWatts = value],
            value, TRUE)

\* setErgTargetValue of useWorkoutDataSource: with the trainer the call is
\* the trainer's and its result arrives later
setErgTargetValue(H, h) ==
  IF isUsingFakeTelemetry(H) THEN fakeSetErgTargetValue(h) ELSE h

\* the telemetry useWorkoutDataSource hands to the hook: the fake
\* service's, or the trainer's, which has no reading yet when the fake
\* source has been in use until now
useWorkoutDataSource(H, h) ==
  IF isUsingFakeTelemetry(H) THEN setErgTargetValue(H, h)
  ELSE IF isUsingFakeTelemetry(Home)
       THEN [h EXCEPT !.livePowerWatts = NULL]
       ELSE h

RecorderIds == 1..MaxRecorders

FlushAwaiting(H, r) ==
  /\ H.recorders[r].flushChain # << >>
  /\ Head(H.recorders[r].flushChain).awaiting

\* the recorder objects something still refers to
LiveRecorders(H) ==
  { r \in RecorderIds :
      \/ r = H.recorderRef
      \/ H.recorders[r].flushChain # << >>
      \/ \E q \in RecorderIds :
           FlushAwaiting(H, q) /\ Head(H.recorders[q].flushChain).recorder = r }

\* recorderRef.current = { sessionId: null, nextChunkIndex: 0, ... }
newRecorder(H) ==
  LET kept == LiveRecorders([H EXCEPT !.recorderRef = 0])
      free == RecorderIds \ kept
      r == IF free = {} THEN 0
           ELSE CHOOSE x \in free : \A y \in free : x <= y
  IN IF r = 0 THEN [H EXCEPT !.recorderRef = 0]
     ELSE [H EXCEPT !.recorderRef = r, !.recorders[r] = FreshRecorder]

\* the appendWorkoutSampleChunk calls of a session that have not settled
InFlightAppends(H, sessionId) ==
  Cardinality({ r \in RecorderIds :
                  /\ FlushAwaiting(H, r)
                  /\ Head(H.recorders[r].flushChain).sessionId = sessionId })

RECURSIVE RunFlush(_, _)
RECURSIVE FlushTaskDone(_, _)
RECURSIVE queueChunkFlush(_, _, _)
RECURSIVE finalizeCurrentWorkoutSession(_, _)

\* flushBufferedSamples, one round of the while loop of the flush at the
\* head of recorder r's chain: either a chunk is taken and its append is
\* awaited, or the loop ends
RunFlush(H, r) ==
  LET task == Head(H.recorders[r].flushChain)
      recorder == H.recorders[task.recorder]
      buffered == Len(recorder.sampleBuffer)
  IN IF buffered >= workoutSampleChunkSize \/ (task.forceFlush /\ buffered > 0)
     THEN LET takeCount == IF task.forceFlush THEN buffered
                           ELSE Min(workoutSampleChunkSize, buffered)
              chunkSamples == SubSeq(recorder.sampleBuffer, 1, takeCount)
              chunkIndex == recorder.nextChunkIndex
              spliced ==
                [H EXCEPT
                   !.recorders[task.recorder].sampleBuffer =
                      SubSeq(@, takeCount + 1, buffered),
                   !.recorders[task.recorder].nextChunkIndex = @ + 1]
          IN [spliced EXCEPT
                !.recorders[r].flushChain[1].awaiting = TRUE,
                !.recorders[r].flushChain[1].chunkSamples = chunkSamples,
                !.recorders[r].flushChain[1].chunkIndex = chunkIndex,
                !.requestLog =
                   Append(@, [op |-> "append", sessionId |-> task.sessionId,
                              chunkIndex |-> chunkIndex,
                              status |-> "none",
                              unsettled |->
                                InFlightAppends(H, task.sessionId)])]
     ELSE FlushTaskDone(H, r)

\* flushBufferedSamples from its first line: the recorder and its session
\* are read when the flush runs, not when it was queued
flushBufferedSamples(H, r) ==
  LET recorder == H.recorderRef
      sessionId == H.recorders[recorder].sessionId
  IN IF sessionId = NULL THEN FlushTaskDone(H, r)
     ELSE RunFlush(
            [H EXCEPT !.recorders[r].flushChain[1].recorder = recorder,
                      !.recorders[r].flushChain[1].sessionId = sessionId], r)

\* finalizeCurrentWorkoutSession after `await queueChunkFlush(true)`
finalizeAfterFlush(H, status) ==
  LET sessionId == H.recorders[H.recorderRef].sessionId
  IN IF sessionId = NULL
     THEN [H EXCEPT !.pendingFinalizeStatusRef = status,
                    !.isFinalizingWorkout = FALSE,
                    !.isFinalizingWorkoutRef = FALSE]
     ELSE [H EXCEPT
             !.finalizeRequest = [sessionId |-> sessionId, status |-> status],
             !.requestLog =
                Append(@, [op |-> "finalize", sessionId |-> sessionId,
                           chunkIndex |-> NULL, status |-> status,
                           unsettled |-> InFlightAppends(H, sessionId)])]

\* the start effect's async block after `await queueChunkFlush(true)`
startAfterFlush(H) ==
  LET pendingFinalizeStatus == H.pendingFinalizeStatusRef
  IN IF pendingFinalizeStatus # "none"
     THEN finalizeCurrentWorkoutSession(
            [H EXCEPT !.pendingFinalizeStatusRef = "none"],
            pendingFinalizeStatus)
     ELSE H

\* the flush at the head of r's chain is over: whoever awaits it goes on,
\* then the flush chained behind it runs
FlushTaskDone(H, r) ==
  LET task == Head(H.recorders[r].flushChain)
      popped == [H EXCEPT !.recorders[r].flushChain = Tail(@)]
      resumed == CASE task.waiter.kind = "finalize" ->
                        finalizeAfterFlush(popped, task.waiter.status)
                   [] task.waiter.kind = "start" -> startAfterFlush(popped)
                   [] OTHER -> popped
  IN IF resumed.recorders[r].flushChain # << >> /\ ~FlushAwaiting(resumed, r)
     THEN flushBufferedSamples(resumed, r)
     ELSE resumed

queueChunkFlush(H, forceFlush, waiter) ==
  LET recorder == H.recorderRef
      task == [forceFlush |-> forceFlush, waiter |-> waiter,
               awaiting |-> FALSE, recorder |-> 0, sessionId |-> NULL,
               chunkIndex |-> NULL, chunkSamples |-> << >>]
      queued == [H EXCEPT !.recorders[recorder].flushChain = Append(@, task)]
  IN IF H.recorders[recorder].flushChain = << >>
     THEN flushBufferedSamples(queued, recorder)
     ELSE queued

finalizeCurrentWorkoutSession(H, status) ==
  IF H.isFinalizingWorkoutRef THEN H
  ELSE queueChunkFlush(
         [H EXCEPT !.isFinalizingWorkoutRef = TRUE,
                   !.isFinalizingWorkout = TRUE],
         TRUE, [kind |-> "finalize", status |-> status])

\* the onSample callback Home passes to the hook
onSample(H, sample) ==
  LET recorder == H.recorderRef
      pushed ==
        [H EXCEPT !.recorders[recorder].sampleBuffer =
           Append(@, [elapsedSeconds |-> sample.elapsedSeconds,
                      segmentIndex |-> sample.segmentIndex,
                      targetWatts |-> sample.targetWatts,
                      powerWatts |-> sample.livePowerWatts,
                      cadenceRpm |-> NULL, heartRateBpm |-> NULL])]
  IN IF Len(pushed.recorders[recorder].sampleBuffer) >= workoutSampleChunkSize
     THEN queueChunkFlush(pushed, FALSE, NoWaiter)
     ELSE pushed

RECURSIVE onSamples(_, _)
onSamples(H, emitted) ==
  IF emitted = << >> THEN H
  ELSE onSamples(onSample(H, Head(emitted)), Tail(emitted))

\* the effect that finalizes once the workout is completed
FinalizeEffect(H, h) ==
  IF ~h.isCompleted \/ h.activeWorkout = 0 \/ H.hasFinalizedCurrentWorkoutRef
  THEN H
  ELSE LET status == IF H.manualEndRequestedRef THEN "ended" ELSE "completed"
       IN finalizeCurrentWorkoutSession(
            [H EXCEPT !.hasFinalizedCurrentWorkoutRef = TRUE,
                      !.manualEndRequestedRef = FALSE,
                      !.requestLog =
                         Append(@, [op |-> "ended",
                                    sessionId |-> H.sessionsStarted,
                                    chunkIndex |-> NULL, status |-> status,
                                    unsettled |-> 0])],
            status)

\* Home after the hook's renders have settled: the hook's effects come
\* first in every commit (onSample), Home's own effects after them
AfterCommit(H, h) == FinalizeEffect(onSamples(H, h.emitted), h)

\* the start effect up to its async block
StartEffect(H) ==
  newRecorder(
    [H EXCEPT !.recordingErrorMessage = "none",
              !.completedSessionId = NULL,
              !.activeSessionId = NULL,
              !.hasFinalizedCurrentWorkoutRef = FALSE,
              !.manualEndRequestedRef = FALSE,
              !.pendingFinalizeStatusRef = "none",
              !.pendingWorkoutStart = 0,
              !.sessionRequests = @ \cup {H.sessionsStarted + 1},
              !.sessionsStarted = @ + 1])

\* the start effect's async block once startWorkoutSession has settled
startWorkoutSessionSettled(H, sessionId, ok) ==
  IF ok
  THEN queueChunkFlush(
         [H EXCEPT !.recorders[H.recorderRef].sessionId = sessionId,
                   !.activeSessionId = sessionId,
                   !.requestLog =
                      Append(@, [op |-> "created", sessionId |-> sessionId,
                                 chunkIndex |-> NULL, status |-> "none",
                                 unsettled |-> 0])],
         TRUE, [kind |-> "start", status |-> "none"])
  ELSE [H EXCEPT !.recordingErrorMessage = "init"]

\* (variant: a failed append is reported and its flush stays at the head
\* of the chain)
appendWorkoutSampleChunkSettledStalls(H, r, ok) ==
  LET settled == [H EXCEPT !.recorders[r].flushChain[1].awaiting = FALSE,
                           !.recorders[r].flushChain[1].chunkIndex = NULL,
                           !.recorders[r].flushChain[1].chunkSamples = << >>]
  IN IF ok THEN RunFlush(settled, r)
     ELSE [settled EXCEPT !.recordingErrorMessage = "save"]

\* flushBufferedSamples after `await appendWorkoutSampleChunk(...)`
appendWorkoutSampleChunkSettled(H, r, ok) ==
  LET settled == [H EXCEPT !.recorders[r].flushChain[1].awaiting = FALSE,
                           !.recorders[r].flushChain[1].chunkIndex = NULL,
                           !.recorders[r].flushChain[1].chunkSamples = << >>]
  IN IF ok THEN RunFlush(settled, r)
     ELSE FlushTaskDone([settled EXCEPT !.recordingErrorMessage = "save"], r)

\* finalizeCurrentWorkoutSession after `await finalizeWorkoutSession(...)`
finalizeWorkoutSessionSettled(H, ok) ==
  LET settled == [H EXCEPT !.finalizeRequest = NoRequest,
                           !.isFinalizingWorkout = FALSE,
                           !.isFinalizingWorkoutRef = FALSE]
  IN IF ok
     THEN [settled EXCEPT !.completedSessionId = H.finalizeRequest.sessionId]
     ELSE [settled EXCEPT !.recordingErrorMessage = "finalize"]

handleDoneWorkout(H) ==
  newRecorder(
    [H EXCEPT !.isWorkoutLifecycleActive = FALSE,
              !.pendingWorkoutStart = 0,
              !.activeSessionId = NULL,
              !.completedSessionId = NULL,
              !.recordingErrorMessage = "none",
              !.hasFinalizedCurrentWorkoutRef = FALSE,
              !.manualEndRequestedRef = FALSE,
              !.pendingFinalizeStatusRef = "none"])

\* completedSessionId ?? activeSessionId ?? recorderRef.current.sessionId
sessionIdToDiscard(H) ==
  IF H.completedSessionId # NULL THEN H.completedSessionId
  ELSE IF H.activeSessionId # NULL THEN H.activeSessionId
  ELSE H.recorders[H.recorderRef].sessionId

\* handleDiscardWorkout up to `await discardWorkoutSession(...)`
handleDiscardWorkout(H) ==
  IF H.isDiscardingWorkout THEN H
  ELSE IF sessionIdToDiscard(H) = NULL THEN handleDoneWorkout(H)
  ELSE [H EXCEPT
          !.isDiscardingWorkout = TRUE,
          !.recordingErrorMessage = "none",
          !.discardRequest = sessionIdToDiscard(H),
          !.requestLog =
             Append(@, [op |-> "discard",
                        sessionId |-> sessionIdToDiscard(H),
                        chunkIndex |-> NULL, status |-> "none",
                        unsettled |->
                          InFlightAppends(H, sessionIdToDiscard(H))])]

\* handleDiscardWorkout after `await discardWorkoutSession(...)`
discardWorkoutSessionSettled(H, ok) ==
  LET settled == [H EXCEPT !.discardRequest = NULL,
                           !.isDiscardingWorkout = FALSE]
  IN IF ok THEN handleDoneWorkout(settled) ELSE settled

(***************************************************************************)
(* Steps.  SetHook and SetHome give the variables their next values.       *)
(***************************************************************************)
SetHook(h) ==
  /\ Len(h.ergInFlight) <= MaxErgInFlight
  /\ activeWorkout' = h.activeWorkout
  /\ isRunning' = h.isRunning
  /\ isPaused' = h.isPaused
  /\ isCompleted' = h.isCompleted
  /\ elapsedSeconds' = h.elapsedSeconds
  /\ currentTargetWatts' = h.currentTargetWatts
  /\ recordedSamples' = h.recordedSamples
  /\ lastSentTargetRef' = h.lastSentTargetRef
  /\ lastSampleElapsedRef' = h.lastSampleElapsedRef
  /\ intervalTimers' = h.intervalTimers
  /\ ftp' = h.ftp
  /\ livePowerWatts' = h.livePowerWatts
  /\ ergInFlight' = h.ergInFlight
  /\ lastErgWrite' = h.lastErgWrite
  /\ lastAckedWatts' = h.lastAckedWatts
  /\ lastErgResult' = h.lastErgResult

\* recorder objects nothing refers to any more are forgotten
SetPage(H) ==
  /\ H.recorderRef # 0
  /\ pendingWorkoutStart' = H.pendingWorkoutStart
  /\ isWorkoutLifecycleActive' = H.isWorkoutLifecycleActive
  /\ activeSessionId' = H.activeSessionId
  /\ completedSessionId' = H.completedSessionId
  /\ isFinalizingWorkout' = H.isFinalizingWorkout
  /\ recordingErrorMessage' = H.recordingErrorMessage
  /\ isDiscardingWorkout' = H.isDiscardingWorkout
  /\ canUseFakeTelemetry' = H.canUseFakeTelemetry
  /\ connectionState' = H.connectionState
  /\ recorders' = [r \in RecorderIds |->
                     IF r \in LiveRecorders(H) THEN H.recorders[r]
                     ELSE FreshRecorder]
  /\ recorderRef' = H.recorderRef
  /\ manualEndRequestedRef' = H.manualEndRequestedRef
  /\ hasFinalizedCurrentWorkoutRef' = H.hasFinalizedCurrentWorkoutRef
  /\ isFinalizingWorkoutRef' = H.isFinalizingWorkoutRef
  /\ pendingFinalizeStatusRef' = H.pendingFinalizeStatusRef
  /\ sessionRequests' = H.sessionRequests
  /\ finalizeRequest' = H.finalizeRequest
  /\ discardRequest' = H.discardRequest
  /\ sessionsStarted' = H.sessionsStarted
  /\ requestLog' = H.requestLog
  /\ workoutSessions' = H.workoutSessions
  /\ workoutSampleChunks' = H.workoutSampleChunks

SetHome(H) == SetPage(H) /\ UNCHANGED << bluetoothVars, backendCall >>

\* the hook after each event, renders and effects settled
afterStart(workout) == Settle(Hook, start(ClearErgHistory(Hook), workout))
afterPause == Settle(Hook, pause(Hook))
afterResume == Settle(Hook, resume(Hook))
afterEnd == Settle(Hook, end(Hook))
afterStop == Settle(Hook, stop(ClearErgHistory(Hook)))
afterSkipSegment == Settle(Hook, skipSegment(Hook))
afterTimer == Settle(Hook, intervalCallback(Hook))
afterTelemetry(watts) == Settle(Hook, [Hook EXCEPT !.livePowerWatts = watts])

\* the history variables of pause and resume
NoteStart ==
  /\ interrupted' = FALSE
  /\ pausedAt' = NoPause
  /\ resumedFrom' = NULL
  /\ firstTick' = NoTick

NoteInterruption ==
  /\ interrupted' = TRUE
  /\ pausedAt' = NoPause
  /\ resumedFrom' = NULL
  /\ firstTick' = NoTick

NotePause ==
  /\ interrupted' = TRUE
  /\ pausedAt' = [elapsedSeconds |-> elapsedSeconds,
                  samples |-> Len(recordedSamples)]
  /\ resumedFrom' = NULL
  /\ firstTick' = NoTick

NoteResume ==
  /\ pausedAt' = NoPause
  /\ resumedFrom' = pausedAt.elapsedSeconds
  /\ firstTick' = NoTick
  /\ UNCHANGED interrupted

NoteTick ==
  /\ firstTick' = IF resumedFrom = NULL THEN NoTick
                  ELSE [from |-> resumedFrom, to |-> elapsedSeconds']
  /\ resumedFrom' = NULL
  /\ UNCHANGED << interrupted, pausedAt >>

(***************************************************************************)
(* Steps of the hook on its own: its API is called in any order and        *)
(* setErgTargetValue is a call whose result arrives later                  *)
(***************************************************************************)
HookStart(workout) ==
  /\ SetHook(afterStart(workout))
  /\ NoteStart
  /\ UNCHANGED << telemetryUpdates, homeVars >>

HookPause ==
  /\ SetHook(afterPause)
  /\ NotePause
  /\ UNCHANGED << telemetryUpdates, homeVars >>

HookResume ==
  /\ SetHook(afterResume)
  /\ NoteResume
  /\ UNCHANGED << telemetryUpdates, homeVars >>

HookEnd ==
  /\ SetHook(afterEnd)
  /\ NoteInterruption
  /\ UNCHANGED << telemetryUpdates, homeVars >>

HookStop ==
  /\ SetHook(afterStop)
  /\ NoteInterruption
  /\ UNCHANGED << telemetryUpdates, homeVars >>

HookSkipSegment ==
  /\ SetHook(afterSkipSegment)
  /\ NoteInterruption
  /\ UNCHANGED << telemetryUpdates, homeVars >>

TimerFires ==
  /\ intervalTimers > 0
  /\ SetHook(afterTimer)
  /\ NoteTick
  /\ UNCHANGED << telemetryUpdates, homeVars >>

\* the livePowerWatts prop changes
TelemetryUpdate(watts) ==
  /\ telemetryUpdates < MaxTelemetryUpdates
  /\ watts # livePowerWatts
  /\ SetHook(afterTelemetry(watts))
  /\ telemetryUpdates' = telemetryUpdates + 1
  /\ UNCHANGED << interrupted, pausedAt, resumedFrom, firstTick, homeVars >>

ErgWriteSettles(i, sent) ==
  /\ i \in 1..Len(ergInFlight)
  /\ SetHook(ergWriteSettled(
       [Hook EXCEPT !.ergInFlight = RemoveAt(@, i),
                    !.lastAckedWatts = IF sent THEN ergInFlight[i] ELSE @,
                    !.lastErgResult = IF sent THEN "acknowledged" ELSE "failed"],
       ergInFlight[i], sent))
  /\ UNCHANGED << telemetryUpdates, interrupted, pausedAt, resumedFrom,
                  firstTick, homeVars >>

(***************************************************************************)
(* Steps of Home: the hook is driven through the controls that are on the  *)
(* screen, its samples go to the recorder, and the backend calls settle    *)
(* one by one, in any order, each with success or failure.  The telemetry  *)
(* is the fake source's, whose setErgTargetValue always succeeds.          *)
(***************************************************************************)
\* the hook h and Home H after an event, Home's effects included
Commit(H, h) ==
  /\ SetHook(useWorkoutDataSource(H, h))
  /\ SetHome(AfterCommit(H, h))

\* the workout is armed: the overlay is shown and the rider has to pedal
waitingForFirstPower(H, h) ==
  H.pendingWorkoutStart # 0 /\ h.activeWorkout = 0 /\ ~isUsingFakeTelemetry(H)

\* the hook h rendered with the data source of Home H
WithDataSource(H, h) ==
  [h EXCEPT !.setErgTargetValue =
              IF isUsingFakeTelemetry(H) THEN "fake" ELSE "trainer"]

\* (variant: the start effect does not wait for a power reading)
RenderStartsUnpowered(H, h) ==
  IF H.pendingWorkoutStart # 0 /\ h.activeWorkout = 0
  THEN /\ Commit(StartEffect(H),
                 Settle(Hook, start(ClearErgHistory(WithDataSource(H, h)),
                                    H.pendingWorkoutStart)))
       /\ NoteStart
  ELSE /\ Commit(H, Settle(Hook, WithDataSource(H, h)))
       /\ UNCHANGED << interrupted, pausedAt, resumedFrom, firstTick >>

\* a render of Home H and hook h that is not a call of the hook's API: the
\* start effect starts the pending workout if it may, and the hook settles
Render(H, h) ==
  IF H.pendingWorkoutStart # 0 /\ h.activeWorkout = 0
       /\ (isUsingFakeTelemetry(H) \/ h.livePowerWatts > 0)
  THEN /\ Commit(StartEffect(H),
                 Settle(Hook, start(ClearErgHistory(WithDataSource(H, h)),
                                    H.pendingWorkoutStart)))
       /\ NoteStart
  ELSE /\ Commit(H, Settle(Hook, WithDataSource(H, h)))
       /\ UNCHANGED << interrupted, pausedAt, resumedFrom, firstTick >>

\* ergControlAvailable of the trainer hook: the connected trainer has
\* granted control of its target power
ergControlAvailable(H) == H.connectionState = "connected"

\* handleStartWorkout from the workout selector, and the start effect of
\* the render that follows
HandleStartWorkout(workout) ==
  /\ ergControlAvailable(Home) \/ canUseFakeTelemetry
  /\ activeWorkout = 0
  /\ pendingWorkoutStart = 0
  /\ sessionsStarted < MaxRuns
  /\ Render([Home EXCEPT !.isWorkoutLifecycleActive = TRUE,
                         !.pendingWorkoutStart = workout], Hook)
  /\ UNCHANGED telemetryUpdates

HandlePause ==
  /\ activeWorkout # 0 /\ ~isCompleted /\ ~isPaused
  /\ Commit(Home, afterPause)
  /\ NotePause
  /\ UNCHANGED telemetryUpdates

HandleResume ==
  /\ activeWorkout # 0 /\ ~isCompleted /\ isPaused
  /\ Commit(Home, afterResume)
  /\ NoteResume
  /\ UNCHANGED telemetryUpdates

\* the button is disabled when there is no next segment
HandleSkipSegment ==
  /\ activeWorkout # 0 /\ ~isCompleted
  /\ activeSegmentIndexOf(Hook) >= 0
  /\ activeSegmentIndexOf(Hook) + 1 < Len(Workouts[activeWorkout].segments)
  /\ Commit(Home, afterSkipSegment)
  /\ NoteInterruption
  /\ UNCHANGED telemetryUpdates

HandleEndWorkout ==
  /\ activeWorkout # 0 /\ ~isCompleted
  /\ Commit([Home EXCEPT !.manualEndRequestedRef = TRUE], afterEnd)
  /\ NoteInterruption
  /\ UNCHANGED telemetryUpdates

HandleDoneWorkout ==
  /\ activeWorkout # 0 /\ isCompleted /\ ~isDiscardingWorkout
  /\ Commit(handleDoneWorkout(Home), afterStop)
  /\ NoteInterruption
  /\ UNCHANGED telemetryUpdates

\* the Discard button: on the screen once the workout is completed,
\* disabled while finalizing or discarding
HandleDiscardWorkout ==
  /\ activeWorkout # 0 /\ isCompleted
  /\ ~isDiscardingWorkout /\ ~isFinalizingWorkout
  /\ Cardinality({ i \in 1..Len(requestLog) :
                     requestLog[i].op = "discard" }) < MaxDiscards
  /\ IF sessionIdToDiscard(Home) = NULL
     THEN /\ Commit(handleDiscardWorkout(Home), afterStop)
          /\ NoteInterruption
     ELSE /\ SetHome(handleDiscardWorkout(Home))
          /\ UNCHANGED << hookVars, interrupted, pausedAt, resumedFrom,
                          firstTick >>
  /\ UNCHANGED telemetryUpdates

HomeTimerFires ==
  /\ intervalTimers > 0
  /\ Commit(Home, afterTimer)
  /\ NoteTick
  /\ UNCHANGED telemetryUpdates

StartWorkoutSessionSettles(sessionId, ok) ==
  /\ sessionId \in sessionRequests
  /\ SetHome(startWorkoutSessionSettled(
       [Home EXCEPT !.sessionRequests = @ \ {sessionId}], sessionId, ok))
  /\ UNCHANGED << hookVars, hookHistory >>

AppendWorkoutSampleChunkSettles(r, ok) ==
  /\ FlushAwaiting(Home, r)
  /\ SetHome(appendWorkoutSampleChunkSettled(Home, r, ok))
  /\ UNCHANGED << hookVars, hookHistory >>

FinalizeWorkoutSessionSettles(ok) ==
  /\ finalizeRequest # NoRequest
  /\ SetHome(finalizeWorkoutSessionSettled(Home, ok))
  /\ UNCHANGED << hookVars, hookHistory >>

DiscardWorkoutSessionSettles(ok) ==
  /\ discardRequest # NULL
  /\ IF ok
     THEN /\ Commit(discardWorkoutSessionSettled(Home, ok), afterStop)
          /\ NoteInterruption
     ELSE /\ SetHome(discardWorkoutSessionSettled(Home, ok))
          /\ UNCHANGED << hookVars, interrupted, pausedAt, resumedFrom,
                          firstTick >>
  /\ UNCHANGED telemetryUpdates

(***************************************************************************)
(* Steps of Home with a trainer: the telemetry is the trainer's while it   *)
(* is connected, a started workout waits for the first power reading, and  *)
(* setErgTargetValue is the trainer's call, whose result arrives later     *)
(***************************************************************************)
\* the readings the trainer can notify
TrainerPowerValues == {0, 150}

\* handlePowerNotification of the trainer hook
PowerNotification(watts) ==
  /\ connectionState = "connected"
  /\ telemetryUpdates < MaxPowerNotifications
  /\ watts # livePowerWatts
  /\ Render(Home, [Hook EXCEPT !.livePowerWatts = watts])
  /\ telemetryUpdates' = telemetryUpdates + 1

\* (variant: the last reading outlives the connection)
TrainerDisconnectedKeepsReading ==
  /\ connectionState = "connected"
  /\ Render([Home EXCEPT !.connectionState = "idle"], Hook)
  /\ UNCHANGED telemetryUpdates

\* handleTrainerDisconnected of the trainer hook
TrainerDisconnected ==
  /\ connectionState = "connected"
  /\ Render([Home EXCEPT !.connectionState = "idle"],
            [Hook EXCEPT !.livePowerWatts = NULL])
  /\ UNCHANGED telemetryUpdates

\* connectTrainer of the trainer hook has succeeded
TrainerConnected ==
  /\ connectionState = "idle"
  /\ Render([Home EXCEPT !.connectionState = "connected"], Hook)
  /\ UNCHANGED telemetryUpdates

\* handleEndWorkout while the workout waits for the first power reading
HandleCancelWorkout ==
  /\ waitingForFirstPower(Home, Hook)
  /\ SetHome([Home EXCEPT !.pendingWorkoutStart = 0,
                          !.isWorkoutLifecycleActive = FALSE])
  /\ UNCHANGED << hookVars, hookHistory >>

\* startWorkoutSession has run on the backend and its result arrives
StartWorkoutSessionStored(sessionId) ==
  /\ sessionId \in sessionRequests
  /\ SetHome(startWorkoutSessionSettled(
       startWorkoutSession([Home EXCEPT !.sessionRequests = @ \ {sessionId}],
                           sessionId),
       sessionId, TRUE))
  /\ UNCHANGED << hookVars, hookHistory >>

\* appendWorkoutSampleChunk has run on the backend and its result
\* arrives: the call fails when the mutation throws
AppendWorkoutSampleChunkStored(r) ==
  /\ FlushAwaiting(Home, r)
  /\ LET task == Head(recorders[r].flushChain)
     IN IF appendWorkoutSampleChunkThrows(Home, task.sessionId,
                                         task.chunkIndex, task.chunkSamples)
        THEN SetHome(appendWorkoutSampleChunkSettled(Home, r, FALSE))
        ELSE SetHome(appendWorkoutSampleChunkSettled(
               appendWorkoutSampleChunk(Home, task.sessionId, task.chunkIndex,
                                        task.chunkSamples),
               r, TRUE))
  /\ UNCHANGED << hookVars, hookHistory >>

\* finalizeWorkoutSession has run on the backend and its result arrives
FinalizeWorkoutSessionStored ==
  /\ finalizeRequest # NoRequest
  /\ SetHome(finalizeWorkoutSessionSettled(
       finalizeWorkoutSession(Home, finalizeRequest.sessionId,
                              finalizeRequest.status),
       TRUE))
  /\ UNCHANGED << hookVars, hookHistory >>

\* a set-target call of the trainer settles
TrainerErgWriteSettles(i, sent) ==
  /\ i \in 1..Len(ergInFlight)
  /\ Commit(Home,
            Settle(Hook,
              ergWriteSettled(
                [Hook EXCEPT !.ergInFlight = RemoveAt(@, i),
                             !.lastAckedWatts =
                                IF sent THEN ergInFlight[i] ELSE @,
                             !.lastErgResult =
                                IF sent THEN "acknowledged" ELSE "failed"],
                ergInFlight[i], sent)))
  /\ UNCHANGED << telemetryUpdates, interrupted, pausedAt, resumedFrom,
                  firstTick >>

(***************************************************************************)
(* The backend called directly: any client may call the mutations, the     *)
(* query and the export action with any arguments.                         *)
(***************************************************************************)
NoBackendCall ==
  [op |-> "none", sessionId |-> NULL, chunkIndex |-> NULL,
   sampleCount |-> 0, result |-> "none", records |-> << >>]

BackendCall(op, sessionId, result) ==
  [NoBackendCall EXCEPT !.op = op, !.sessionId = sessionId,
                        !.result = result]

BackendSample(elapsed, watts, bpm, rpm) ==
  [elapsedSeconds |-> elapsed, segmentIndex |-> 0,
   targetWatts |-> 100, powerWatts |-> watts,
   cadenceRpm |-> rpm, heartRateBpm |-> bpm]

\* the chunks a client sends: none, one sample, two samples out of order,
\* and one sample more than the limit
SampleChunks ==
  { << >>,
    << BackendSample(0, 150, NULL, 90) >>,
    << BackendSample(2, NULL, 141, NULL), BackendSample(1, 151, 120, NULL) >>,
    [i \in 1..(chunkSizeLimit + 1) |-> BackendSample(i, 150, NULL, NULL)] }

ChunkIndexValues == {-1, 0, 1}

\* a client starts a session: the table assigns the next id
CallStartWorkoutSession ==
  /\ sessionsStarted < MaxRuns
  /\ SetPage(startWorkoutSession(
       [Home EXCEPT !.sessionsStarted = @ + 1], sessionsStarted + 1))
  /\ backendCall' = BackendCall("start", sessionsStarted + 1, "created")
  /\ UNCHANGED << hookVars, hookHistory, bluetoothVars >>

\* what appendWorkoutSampleChunk returns or throws
appendWorkoutSampleChunkResult(db, sessionId, chunkIndex, samples) ==
  IF samples = << >> THEN "empty_chunk"
  ELSE IF Len(samples) > chunkSizeLimit THEN "error: chunk size"
  ELSE IF chunkIndex < 0 THEN "error: chunk index"
  ELSE IF db.workoutSessions[sessionId].status = "none"
  THEN "error: not found"
  ELSE IF db.workoutSessions[sessionId].status # "recording"
  THEN "session_not_recording"
  ELSE IF \E i \in 1..Len(db.workoutSampleChunks) :
            /\ db.workoutSampleChunks[i].sessionId = sessionId
            /\ db.workoutSampleChunks[i].chunkIndex = chunkIndex
  THEN "duplicate_chunk"
  ELSE "inserted"

CallAppendWorkoutSampleChunk(sessionId, chunkIndex, samples) ==
  /\ SetPage(IF appendWorkoutSampleChunkThrows(Home, sessionId, chunkIndex,
                                               samples)
             THEN Home
             ELSE appendWorkoutSampleChunk(Home, sessionId, chunkIndex,
                                           samples))
  /\ backendCall' =
       [BackendCall("append", sessionId,
                    appendWorkoutSampleChunkResult(Home, sessionId,
                                                   chunkIndex, samples))
          EXCEPT !.chunkIndex = chunkIndex, !.sampleCount = Len(samples)]
  /\ UNCHANGED << hookVars, hookHistory, bluetoothVars >>

CallFinalizeWorkoutSession(sessionId, status) ==
  /\ SetPage(IF workoutSessions[sessionId].status = "none" THEN Home
             ELSE finalizeWorkoutSession(Home, sessionId, status))
  /\ backendCall' =
       BackendCall("finalize", sessionId,
                   IF workoutSessions[sessionId].status = "none"
                   THEN "error: not found"
                   ELSE IF workoutSessions[sessionId].status = "recording"
                   THEN status
                   ELSE workoutSessions[sessionId].status)
  /\ UNCHANGED << hookVars, hookHistory, bluetoothVars >>

CallDiscardWorkoutSession(sessionId) ==
  /\ SetPage(IF workoutSessions[sessionId].status = "none" THEN Home
             ELSE discardWorkoutSession(Home, sessionId))
  /\ backendCall' =
       BackendCall("discard", sessionId,
                   IF workoutSessions[sessionId].status = "none"
                   THEN "error: not found" ELSE "discarded")
  /\ UNCHANGED << hookVars, hookHistory, bluetoothVars >>

CallGenerateWorkoutFitDownload(sessionId) ==
  /\ LET download == generateWorkoutFitDownload(Home, sessionId)
     IN  backendCall' =
           [BackendCall("export", sessionId,
                        IF download.error = "none" THEN "fit"
                        ELSE download.error)
              EXCEPT !.records = download.records]
  /\ UNCHANGED << hookVars, hookHistory, pageVars, bluetoothVars >>

(***************************************************************************)
(* useTrainerBluetooth (the trainer hook): the decoders of the notified    *)
(* characteristic values, the two notification handlers and the manual     *)
(* set-target path.  A DataView is the sequence of its bytes.              *)
(***************************************************************************)
\* what a decoder returns for "no reading" (null): no 16-bit value
NoReading == -65536

SET_TARGET_POWER_OPCODE == 5
\* the largest target setErgTarget accepts
MaxErgTargetWatts == 2000

\* DataView.getUint8, getUint16 and getInt16 (little-endian) at a byte offset
getUint8(value, offset) == value[offset + 1]
getUint16(value, offset) == value[offset + 1] + 256 * value[offset + 2]
getInt16(value, offset) ==
  LET unsigned == getUint16(value, offset)
  IN  IF unsigned >= 32768 THEN unsigned - 65536 ELSE unsigned

\* flags & mask is not 0, for a mask of one bit
HasFlag(flags, mask) == (flags \div mask) % 2 = 1

parseCyclingPowerMeasurement(value) ==
  IF Len(value) < 4 THEN NoReading ELSE getInt16(value, 2)

\* the offset of the instantaneous power field under the flags word
indoorBikePowerOffset(flags) ==
  2 + (IF ~HasFlag(flags, 1) THEN 2 ELSE 0)
    + (IF HasFlag(flags, 2) THEN 2 ELSE 0)
    + (IF HasFlag(flags, 4) THEN 2 ELSE 0)
    + (IF HasFlag(flags, 8) THEN 2 ELSE 0)
    + (IF HasFlag(flags, 16) THEN 3 ELSE 0)
    + (IF HasFlag(flags, 32) THEN 2 ELSE 0)

\* a variant of parseIndoorBikeData that reads the power field whatever
\* the power-present bit says
parseIndoorBikeDataUnflagged(value) ==
  IF Len(value) < 2 THEN NoReading
  ELSE LET offset == indoorBikePowerOffset(getUint16(value, 0))
       IN  IF Len(value) < offset + 2 THEN NoReading
           ELSE getInt16(value, offset)

parseIndoorBikeData(value) ==
  IF Len(value) < 2 THEN NoReading
  ELSE LET flags == getUint16(value, 0)
           offset == indoorBikePowerOffset(flags)
       IN  IF HasFlag(flags, 64)
           THEN IF Len(value) < offset + 2 THEN NoReading
                ELSE getInt16(value, offset)
           ELSE NoReading

parseHeartRateMeasurement(value) ==
  IF Len(value) < 2 THEN NoReading
  ELSE IF HasFlag(getUint8(value, 0), 1)
       THEN IF Len(value) < 3 THEN NoReading ELSE getUint16(value, 1)
       ELSE getUint8(value, 1)

\* DataView.setInt16 keeps the low 16 bits of the value
encodeSetTargetPowerBigEndian(targetWatts) ==
  LET bits == targetWatts % 65536
  IN  << SET_TARGET_POWER_OPCODE, bits \div 256, bits % 256 >>

encodeSetTargetPower(targetWatts) ==
  LET bits == targetWatts % 65536
  IN  << SET_TARGET_POWER_OPCODE, bits % 256, bits \div 256 >>

\* the byte values and the characteristic values of the notifications
ByteValues == {0, 65, 129}
MaxValueBytes == 4
CharacteristicValues ==
  UNION {[1..n -> ByteValues] : n \in 0..MaxValueBytes}

NoNotification == [characteristic |-> "none", value |-> << >>,
                   reading |-> NoReading]

\* every variable of the page but livePowerWatts
pageVarsButPower ==
  << activeWorkout, isRunning, isPaused, isCompleted, elapsedSeconds,
     currentTargetWatts, recordedSamples, lastSentTargetRef,
     lastSampleElapsedRef, intervalTimers, ftp, ergInFlight,
     lastErgWrite, lastAckedWatts, lastErgResult, hookHistory, pageVars >>

\* (variant: a value that does not decode clears the reading)
handlePowerNotificationClears(value) ==
  LET watts == IF payloadTypeRef = "cycling-power"
               THEN parseCyclingPowerMeasurement(value)
               ELSE parseIndoorBikeData(value)
  IN  /\ connectionState = "connected"
      /\ notification' = [characteristic |-> payloadTypeRef,
                          value |-> value, reading |-> watts]
      /\ livePowerWatts' = IF watts = NoReading THEN NULL
                           ELSE Max(0, watts)
      /\ UNCHANGED << pageVarsButPower, heartRateBpm, payloadTypeRef,
                      ergTargetWatts, controlCharacteristicRef,
                      statusMessage, ftmsInFlight, ftmsWritten, backendCall,
                      deviceVars >>

\* the power characteristic notifies a value
handlePowerNotification(value) ==
  LET watts == IF payloadTypeRef = "cycling-power"
               THEN parseCyclingPowerMeasurement(value)
               ELSE parseIndoorBikeData(value)
  IN  /\ connectionState = "connected"
      /\ notification' = [characteristic |-> payloadTypeRef,
                          value |-> value, reading |-> watts]
      /\ livePowerWatts' = IF watts = NoReading THEN livePowerWatts
                           ELSE Max(0, watts)
      /\ UNCHANGED << pageVarsButPower, heartRateBpm, payloadTypeRef,
                      ergTargetWatts, controlCharacteristicRef,
                      statusMessage, ftmsInFlight, ftmsWritten, backendCall,
                      deviceVars >>

\* the heart-rate characteristic notifies a value
handleHeartRateNotification(value) ==
  LET bpm == parseHeartRateMeasurement(value)
  IN  /\ notification' = [characteristic |-> "heart-rate",
                          value |-> value, reading |-> bpm]
      /\ heartRateBpm' = IF bpm = NoReading THEN heartRateBpm
                         ELSE Max(0, bpm)
      /\ UNCHANGED << pageVarsButPower, livePowerWatts, payloadTypeRef,
                      ergTargetWatts, controlCharacteristicRef,
                      statusMessage, ftmsInFlight, ftmsWritten,
                      backendCall, deviceVars >>

\* at most this many writes to the control point wait for their response
MaxFtmsInFlight == 2

\* the "Set ERG" button: setErgTarget() up to the await of the write
setErgTarget ==
  /\ Len(ftmsInFlight) < MaxFtmsInFlight
  /\ IF ergTargetWatts < 0 \/ ergTargetWatts > MaxErgTargetWatts
     THEN /\ statusMessage' = "choose a target"
          /\ UNCHANGED ftmsInFlight
     ELSE IF ~controlCharacteristicRef
     THEN /\ statusMessage' = "no control point"
          /\ UNCHANGED ftmsInFlight
     ELSE /\ ftmsInFlight' =
               Append(ftmsInFlight, encodeSetTargetPower(ergTargetWatts))
          /\ UNCHANGED statusMessage
  /\ UNCHANGED << pageVarsButPower, livePowerWatts, heartRateBpm,
                  payloadTypeRef, notification, ergTargetWatts,
                  controlCharacteristicRef, ftmsWritten, backendCall,
                  deviceVars >>

\* writeValueWithResponse of the oldest write settles, and setErgTarget()
\* continues after its await
WriteValueWithResponseSettles(written) ==
  /\ ftmsInFlight # << >>
  /\ ftmsInFlight' = Tail(ftmsInFlight)
  /\ ftmsWritten' = IF written THEN Head(ftmsInFlight) ELSE ftmsWritten
  /\ statusMessage' = IF written THEN "target set" ELSE "failed"
  /\ UNCHANGED << pageVarsButPower, livePowerWatts, heartRateBpm,
                  payloadTypeRef, notification, ergTargetWatts,
                  controlCharacteristicRef, backendCall, deviceVars >>

(***************************************************************************)
(* The trainer's connection (useTrainerBluetooth).  connectTrainer() is an *)
(* async function: connectStep is the await it is at before the line that *)
(* sets 'connected', controlStep the one it is at after that line.  The    *)
(* page has one trainer, so requestDevice() yields the same device object  *)
(* at every connection, with the listeners that were left on it.  A GATT   *)
(* operation that is pending when the server disconnects is rejected.      *)
(* ConnectionPanels shows "Disconnect Trainer" while connectionState is    *)
(* 'connected' and enables "Connect Trainer" in every other state but      *)
(* 'connecting', when Web Bluetooth is supported.                          *)
(***************************************************************************)
\* what connectTrainer, disconnectTrainer and handleTrainerDisconnected
\* leave alone
connectionFrame ==
  << activeWorkout, isRunning, isPaused, isCompleted, elapsedSeconds,
     currentTargetWatts, recordedSamples, lastSentTargetRef,
     lastSampleElapsedRef, intervalTimers, ftp, ergInFlight,
     lastErgWrite, lastAckedWatts, lastErgResult, hookHistory,
     pendingWorkoutStart, isWorkoutLifecycleActive, activeSessionId,
     completedSessionId, isFinalizingWorkout, recordingErrorMessage,
     isDiscardingWorkout, canUseFakeTelemetry,
     recorders, recorderRef, manualEndRequestedRef,
     hasFinalizedCurrentWorkoutRef, isFinalizingWorkoutRef,
     pendingFinalizeStatusRef, sessionRequests, finalizeRequest,
     discardRequest, sessionsStarted, requestLog,
     workoutSessions, workoutSampleChunks,
     heartRateBpm, ergTargetWatts, ftmsInFlight, notification, ftmsWritten,
     backendCall >>

\* the "Connect Trainer" button: connectTrainer() up to the await of
\* requestDevice(); one call at a time is before its 'connected' line
connectTrainer ==
  /\ connectionState \notin {"connected", "connecting"}
  /\ connectStep = "none"
  /\ connectionState' = "connecting"
  /\ statusMessage' = "searching"
  /\ connectStep' = "requestDevice"
  /\ UNCHANGED << livePowerWatts, payloadTypeRef, controlCharacteristicRef,
                  trainerDeviceRef, powerCharacteristicRef, gattConnected,
                  powerListener, disconnectListener, controlStep,
                  connectionFrame >>

\* the await connectTrainer() is at resolves, before the 'connected' line:
\* the device is chosen; its GATT server connects; the power
\* characteristic is found, of the cycling power service or else of the
\* fitness machine service, and gets the listener; the notifications
\* start, and the refs, the disconnect listener and 'connected' are set
ConnectStepResolves ==
  /\ connectStep # "none"
  /\ connectStep \notin {"requestDevice", "connect"} => gattConnected
  /\ connectStep = "startNotifications" => controlStep = "none"
  /\ connectStep' =
       CASE connectStep = "requestDevice" -> "connect"
         [] connectStep = "connect" -> "cyclingPower"
         [] connectStep \in {"cyclingPower", "indoorBike"} ->
              "startNotifications"
         [] OTHER -> "none"
  /\ gattConnected' = (gattConnected \/ connectStep = "connect")
  /\ payloadTypeRef' =
       CASE connectStep = "cyclingPower" -> "cycling-power"
         [] connectStep = "indoorBike" -> "indoor-bike"
         [] OTHER -> payloadTypeRef
  /\ powerListener' =
       (powerListener \/ connectStep \in {"cyclingPower", "indoorBike"})
  /\ IF connectStep = "startNotifications"
     THEN /\ powerCharacteristicRef' = TRUE
          /\ disconnectListener' = TRUE
          /\ trainerDeviceRef' = TRUE
          /\ connectionState' = "connected"
          /\ statusMessage' = "streaming"
          /\ controlStep' = "controlPoint"
     ELSE UNCHANGED << powerCharacteristicRef, disconnectListener,
                       trainerDeviceRef, connectionState, statusMessage,
                       controlStep >>
  /\ UNCHANGED << livePowerWatts, controlCharacteristicRef,
                  connectionFrame >>

\* the await connectTrainer() is at rejects, before the 'connected' line:
\* without the cycling power characteristic the fitness machine service
\* is tried, every other failure is caught by the outer catch
ConnectStepRejects ==
  /\ connectStep # "none"
  /\ IF connectStep = "cyclingPower"
     THEN /\ connectStep' = "indoorBike"
          /\ UNCHANGED << connectionState, statusMessage >>
     ELSE /\ connectStep' = "none"
          /\ connectionState' = "error"
          /\ statusMessage' = "error"
  /\ UNCHANGED << livePowerWatts, payloadTypeRef, controlCharacteristicRef,
                  trainerDeviceRef, powerCharacteristicRef, gattConnected,
                  powerListener, disconnectListener, controlStep,
                  connectionFrame >>

\* the await connectTrainer() is at resolves, after the 'connected' line:
\* the control point is found and the request-control command written,
\* or the response of the command has arrived
ControlStepResolves ==
  /\ controlStep \in {"controlPoint", "requestControl"}
  /\ gattConnected
  /\ IF controlStep = "controlPoint"
     THEN /\ controlCharacteristicRef' = TRUE
          /\ controlStep' = "requestControl"
     ELSE /\ controlStep' = "none"
          /\ UNCHANGED controlCharacteristicRef
  /\ UNCHANGED << connectionState, statusMessage, livePowerWatts,
                  payloadTypeRef, trainerDeviceRef, powerCharacteristicRef,
                  gattConnected, powerListener, disconnectListener,
                  connectStep, connectionFrame >>

\* (variant: a failure after the 'connected' line is caught by the outer
\* catch)
ControlStepRejectsFailsConnection ==
  /\ controlStep # "none"
  /\ connectionState' = "error"
  /\ statusMessage' = "error"
  /\ controlStep' = "none"
  /\ UNCHANGED << controlCharacteristicRef, livePowerWatts, payloadTypeRef,
                  trainerDeviceRef, powerCharacteristicRef, gattConnected,
                  powerListener, disconnectListener, connectStep,
                  connectionFrame >>

\* the await connectTrainer() is at rejects, after the 'connected' line:
\* the inner catch
ControlStepRejects ==
  /\ controlStep # "none"
  /\ controlCharacteristicRef' = FALSE
  /\ statusMessage' = "read-only"
  /\ controlStep' = "none"
  /\ UNCHANGED << connectionState, livePowerWatts, payloadTypeRef,
                  trainerDeviceRef, powerCharacteristicRef, gattConnected,
                  powerListener, disconnectListener, connectStep,
                  connectionFrame >>

\* the pending operation of connectTrainer() after the 'connected' line,
\* once the GATT server has disconnected
Rejected(step) == IF step = "none" THEN "none" ELSE "rejected"

\* (variant: the control point and the device outlive the disconnect)
disconnectTrainerKeepsHandles ==
  /\ connectionState = "connected"
  /\ powerListener' = (powerListener /\ ~powerCharacteristicRef)
  /\ powerCharacteristicRef' = FALSE
  /\ connectionState' = "idle"
  /\ livePowerWatts' = NULL
  /\ statusMessage' = "disconnected"
  /\ UNCHANGED << controlCharacteristicRef, trainerDeviceRef,
                  disconnectListener, gattConnected, controlStep,
                  payloadTypeRef, connectStep, connectionFrame >>

\* the "Disconnect Trainer" button
disconnectTrainer ==
  /\ connectionState = "connected"
  /\ powerListener' = (powerListener /\ ~powerCharacteristicRef)
  /\ powerCharacteristicRef' = FALSE
  /\ controlCharacteristicRef' = FALSE
  /\ IF trainerDeviceRef
     THEN /\ disconnectListener' = FALSE
          /\ gattConnected' = FALSE
          /\ controlStep' = IF gattConnected THEN Rejected(controlStep)
                            ELSE controlStep
     ELSE UNCHANGED << disconnectListener, gattConnected, controlStep >>
  /\ trainerDeviceRef' = FALSE
  /\ connectionState' = "idle"
  /\ livePowerWatts' = NULL
  /\ statusMessage' = "disconnected"
  /\ UNCHANGED << payloadTypeRef, connectStep, connectionFrame >>

\* the trainer's GATT server disconnects (powered off, out of range): the
\* device fires gattserverdisconnected, which runs
\* handleTrainerDisconnected when the listener is on the device
GattServerDisconnected ==
  /\ gattConnected
  /\ gattConnected' = FALSE
  /\ controlStep' = Rejected(controlStep)
  /\ IF disconnectListener
     THEN /\ powerListener' = (powerListener /\ ~powerCharacteristicRef)
          /\ powerCharacteristicRef' = FALSE
          /\ controlCharacteristicRef' = FALSE
          /\ trainerDeviceRef' = FALSE
          /\ connectionState' = "idle"
          /\ livePowerWatts' = NULL
          /\ statusMessage' = "disconnected"
     ELSE UNCHANGED << powerListener, powerCharacteristicRef,
                       controlCharacteristicRef, trainerDeviceRef,
                       connectionState, livePowerWatts, statusMessage >>
  /\ UNCHANGED << disconnectListener, payloadTypeRef, connectStep,
                  connectionFrame >>

\* the values the trainer notifies while it is connected
NotifiedValues == { << 0, 0, 65, 0 >>, << 0, 0 >> }

\* the power characteristic notifies while its notifications are started
\* and the listener is on it
PowerNotified(value) ==
  /\ gattConnected /\ powerListener /\ powerCharacteristicRef
  /\ handlePowerNotification(value)

\* the trainer hook after it was mounted: nothing notified, nothing
\* written, and no call of a client to the backend
BluetoothMounted ==
  /\ trainerDeviceRef = (connectionState = "connected")
  /\ powerCharacteristicRef = (connectionState = "connected")
  /\ gattConnected = (connectionState = "connected")
  /\ powerListener = (connectionState = "connected")
  /\ disconnectListener = (connectionState = "connected")
  /\ connectStep = "none"
  /\ controlStep = "none"
  /\ heartRateBpm = NULL
  /\ notification = NoNotification
  /\ statusMessage = "connect"
  /\ ftmsInFlight = << >>
  /\ ftmsWritten = << >>
  /\ backendCall = NoBackendCall

\* the state of the page after Home has been mounted
InitPage(ftpValues, accounts, connection) ==
  /\ activeWorkout = 0
  /\ isRunning = FALSE
  /\ isPaused = FALSE
  /\ isCompleted = FALSE
  /\ elapsedSeconds = 0
  /\ currentTargetWatts = NULL
  /\ recordedSamples = << >>
  /\ lastSentTargetRef = NULL
  /\ lastSampleElapsedRef = -1
  /\ intervalTimers = 0
  /\ ftp \in ftpValues
  /\ livePowerWatts = NULL
  /\ ergInFlight = << >>
  /\ telemetryUpdates = 0
  /\ interrupted = FALSE
  /\ lastErgWrite = NoErgWrite
  /\ lastAckedWatts = NULL
  /\ lastErgResult = "none"
  /\ pausedAt = NoPause
  /\ resumedFrom = NULL
  /\ firstTick = NoTick
  /\ pendingWorkoutStart = 0
  /\ isWorkoutLifecycleActive = FALSE
  /\ activeSessionId = NULL
  /\ completedSessionId = NULL
  /\ isFinalizingWorkout = FALSE
  /\ recordingErrorMessage = "none"
  /\ isDiscardingWorkout = FALSE
  /\ canUseFakeTelemetry \in accounts
  /\ connectionState = connection
  /\ recorders = [r \in RecorderIds |-> FreshRecorder]
  /\ recorderRef = 1
  /\ manualEndRequestedRef = FALSE
  /\ hasFinalizedCurrentWorkoutRef = FALSE
  /\ isFinalizingWorkoutRef = FALSE
  /\ pendingFinalizeStatusRef = "none"
  /\ sessionRequests = {}
  /\ finalizeRequest = NoRequest
  /\ discardRequest = NULL
  /\ sessionsStarted = 0
  /\ requestLog = << >>
  /\ workoutSessions = [sessionId \in 1..MaxRuns |-> NoSession]
  /\ workoutSampleChunks = << >>

DEFAULT_ERG_TARGET_WATTS == 180

\* the state after Home has been mounted
InitOf(ftpValues, accounts, connection) ==
  /\ InitPage(ftpValues, accounts, connection)
  /\ BluetoothMounted
  /\ payloadTypeRef = "cycling-power"
  /\ ergTargetWatts = DEFAULT_ERG_TARGET_WATTS
  /\ controlCharacteristicRef = (connection = "connected")

\* the account may use the fake telemetry source and no trainer is connected
Init == InitOf(FtpValues, {TRUE}, "idle")

Next ==
  \/ \E workout \in WorkoutIds : HookStart(workout)
  \/ HookPause
  \/ HookResume
  \/ HookEnd
  \/ HookStop
  \/ HookSkipSegment
  \/ TimerFires
  \/ \E watts \in PowerValues : TelemetryUpdate(watts)
  \/ \E i \in 1..MaxErgInFlight, sent \in BOOLEAN : ErgWriteSettles(i, sent)

Spec == Init /\ [][Next]_vars

NextHome ==
  \/ \E workout \in SelectableWorkoutIds : HandleStartWorkout(workout)
  \/ HandlePause
  \/ HandleResume
  \/ HandleSkipSegment
  \/ HandleEndWorkout
  \/ HandleDoneWorkout
  \/ HandleDiscardWorkout
  \/ HomeTimerFires
  \/ \E sessionId \in 1..MaxRuns, ok \in BOOLEAN :
       StartWorkoutSessionSettles(sessionId, ok)
  \/ \E r \in RecorderIds, ok \in BOOLEAN :
       AppendWorkoutSampleChunkSettles(r, ok)
  \/ \E ok \in BOOLEAN : FinalizeWorkoutSessionSettles(ok)
  \/ \E ok \in BOOLEAN : DiscardWorkoutSessionSettles(ok)

SpecHome == Init /\ [][NextHome]_vars

\* Home with a trainer that is connected when the page is opened and that
\* may disconnect for the rest of the behaviour, and a backend whose calls
\* fail only where its mutations throw
InitTrainer == InitOf(FtpValues, BOOLEAN, "connected")

NextTrainer ==
  \/ \E workout \in TrainerWorkoutIds : HandleStartWorkout(workout)
  \/ HandleCancelWorkout
  \/ \E watts \in TrainerPowerValues : PowerNotification(watts)
  \/ TrainerDisconnected
  \/ \E i \in 1..MaxErgInFlight, sent \in BOOLEAN :
       TrainerErgWriteSettles(i, sent)
  \/ HandleEndWorkout
  \/ HomeTimerFires
  \/ \E sessionId \in 1..MaxRuns : StartWorkoutSessionStored(sessionId)
  \/ \E r \in RecorderIds : AppendWorkoutSampleChunkStored(r)
  \/ FinalizeWorkoutSessionStored

SpecTrainer == InitTrainer /\ [][NextTrainer]_vars

\* Home without a trainer and with a backend on which every call
\* succeeds: the sessions are created, the chunks appended and the
\* sessions finalized by the mutations, and nothing is discarded
NextStorage ==
  \/ \E workout \in SelectableWorkoutIds : HandleStartWorkout(workout)
  \/ HandleEndWorkout
  \/ HandleDoneWorkout
  \/ HomeTimerFires
  \/ \E sessionId \in 1..MaxRuns : StartWorkoutSessionStored(sessionId)
  \/ \E r \in RecorderIds : AppendWorkoutSampleChunkStored(r)
  \/ FinalizeWorkoutSessionStored

SpecStorage == Init /\ [][NextStorage]_vars

\* the hook on its own with the workouts of one ramp
InitRamp == InitOf(RampFtpValues, {TRUE}, "idle")

NextRamp ==
  \/ \E workout \in RampWorkoutIds : HookStart(workout)
  \/ TimerFires
  \/ \E i \in 1..MaxErgInFlight, sent \in BOOLEAN : ErgWriteSettles(i, sent)

SpecRamp == InitRamp /\ [][NextRamp]_vars

\* the trainer hook with a connected trainer of either payload type and a
\* heart-rate monitor, each notifying characteristic values
InitNotifications ==
  /\ InitPage(FtpValues, {TRUE}, "connected")
  /\ BluetoothMounted
  /\ payloadTypeRef \in {"cycling-power", "indoor-bike"}
  /\ ergTargetWatts = DEFAULT_ERG_TARGET_WATTS
  /\ controlCharacteristicRef = TRUE

NextNotifications ==
  \/ \E value \in CharacteristicValues : handlePowerNotification(value)
  \/ \E value \in CharacteristicValues : handleHeartRateNotification(value)

SpecNotifications == InitNotifications /\ [][NextNotifications]_vars

\* the values the ERG strip may hold when "Set ERG" is pressed
ErgTargetValues == -1..(MaxErgTargetWatts + 1)

\* the trainer hook with a connected trainer, with or without a control
\* point, and the ERG strip holding any of its values
InitErgControl ==
  /\ InitPage(FtpValues, {TRUE}, "connected")
  /\ BluetoothMounted
  /\ payloadTypeRef = "cycling-power"
  /\ ergTargetWatts \in ErgTargetValues
  /\ controlCharacteristicRef \in BOOLEAN

NextErgControl ==
  \/ setErgTarget
  \/ \E written \in BOOLEAN : WriteValueWithResponseSettles(written)

SpecErgControl == InitErgControl /\ [][NextErgControl]_vars

\* the trainer hook from its mount, with no trainer connected
InitConnection ==
  /\ InitPage(FtpValues, {TRUE}, "idle")
  /\ BluetoothMounted
  /\ payloadTypeRef = "cycling-power"
  /\ ergTargetWatts = DEFAULT_ERG_TARGET_WATTS
  /\ controlCharacteristicRef = FALSE

NextConnection ==
  \/ connectTrainer
  \/ ConnectStepResolves
  \/ ConnectStepRejects
  \/ ControlStepResolves
  \/ ControlStepRejects
  \/ disconnectTrainer
  \/ GattServerDisconnected
  \/ \E value \in NotifiedValues : PowerNotified(value)
  \/ setErgTarget
  \/ \E written \in BOOLEAN : WriteValueWithResponseSettles(written)

SpecConnection == InitConnection /\ [][NextConnection]_vars

\* the backend with empty tables
InitBackend ==
  /\ InitPage(FtpValues, {TRUE}, "idle")
  /\ BluetoothMounted
  /\ payloadTypeRef = "cycling-power"
  /\ ergTargetWatts = DEFAULT_ERG_TARGET_WATTS
  /\ controlCharacteristicRef = FALSE

NextBackend ==
  \/ CallStartWorkoutSession
  \/ \E sessionId \in 1..MaxRuns, chunkIndex \in ChunkIndexValues,
        samples \in SampleChunks :
       CallAppendWorkoutSampleChunk(sessionId, chunkIndex, samples)
  \/ \E sessionId \in 1..MaxRuns, status \in {"completed", "ended"} :
       CallFinalizeWorkoutSession(sessionId, status)
  \/ \E sessionId \in 1..MaxRuns : CallDiscardWorkoutSession(sessionId)
  \/ \E sessionId \in 1..MaxRuns : CallGenerateWorkoutFitDownload(sessionId)

SpecBackend == InitBackend /\ [][NextBackend]_vars

(***************************************************************************)
(* Vocabulary of the properties                                            *)
(***************************************************************************)
SegmentAt(workout, elapsed) ==
  Workouts[workout].segments[getSegmentIndexForElapsed(workout, elapsed) + 1]

\* a second at which the dispatch policy schedules a write: second 0 of a
\* segment and, in a ramp, the multiples of the interval and the last second
EligibleDispatchSecond(segment, second) ==
  \/ second = 0
  \/ /\ segment.kind = "ramp"
     /\ segment.ftpLow # segment.ftpHigh
     /\ \/ second % rampUpdateIntervalSeconds = 0
        \/ second = segment.durationSeconds - 1

LatestEligibleSecond(segment, second) ==
  CHOOSE e \in 0..second :
    /\ EligibleDispatchSecond(segment, e)
    /\ \A later \in (e + 1)..second : ~EligibleDispatchSecond(segment, later)

\* the write was issued at a second the dispatch policy schedules
IssuedAtEligibleSecond(write) ==
  LET segment == SegmentAt(write.workout, write.elapsedSeconds)
  IN EligibleDispatchSecond(segment, write.elapsedSeconds - segment.startSecond)

\* the target of the latest eligible second at or before elapsed
ScheduledTarget(workout, elapsed, ftpValue) ==
  LET segment == SegmentAt(workout, elapsed)
  IN getSegmentTargetWatts(
       segment, LatestEligibleSecond(segment, elapsed - segment.startSecond),
       ftpValue)

InSegment == activeWorkout # 0 /\ getSegmentIndexForElapsed(activeWorkout, elapsedSeconds) >= 0

(***************************************************************************)
(* C1: a workout of N seconds that is started and runs to completion with  *)
(* no pause, skipSegment, end or stop has emitted exactly N samples when   *)
(* it is Completed.                                                        *)
(***************************************************************************)
C1_CompletedRunHasDurationManySamples ==
  (activeWorkout # 0 /\ isCompleted /\ ~interrupted)
    => Len(recordedSamples) = Workouts[activeWorkout].totalDurationSeconds

(***************************************************************************)
(* Vocabulary of the recorder's properties                                 *)
(***************************************************************************)
SessionIds == 1..MaxRuns

\* the chunkIndex values of a session's append calls, in the order of issue
RECURSIVE ChunkIndexesIssued(_, _)
ChunkIndexesIssued(log, sessionId) ==
  IF log = << >> THEN << >>
  ELSE LET earlier == ChunkIndexesIssued(SubSeq(log, 1, Len(log) - 1), sessionId)
           last == log[Len(log)]
       IN IF last.op = "append" /\ last.sessionId = sessionId
          THEN Append(earlier, last.chunkIndex)
          ELSE earlier

\* the append awaited by the flush at the head of r's chain has just
\* failed: that flush is over and the failure is reported for the first time
AppendFailedOn(r) ==
  /\ FlushAwaiting(Home, r)
  /\ recorders'[r].flushChain # recorders[r].flushChain
  /\ recordingErrorMessage # "save"
  /\ recordingErrorMessage' = "save"

IsPrefix(s, t) == Len(s) <= Len(t) /\ SubSeq(t, 1, Len(s)) = s

(***************************************************************************)
(* C2: the chunkIndex values of the append calls of one session are        *)
(* 0, 1, ..., k-1 in the order of issue.                                   *)
(***************************************************************************)
C2_ChunkIndexesCountUpFromZero ==
  \A sessionId \in SessionIds :
    LET issued == ChunkIndexesIssued(requestLog, sessionId)
    IN \A i \in 1..Len(issued) : issued[i] = i - 1

(***************************************************************************)
(* C3: when an append call fails, the samples of its chunk are still at    *)
(* the front of the buffer of the recorder they were taken from.           *)
(***************************************************************************)
C3_FailedChunkStaysBuffered ==
  [][ \A r \in RecorderIds :
        AppendFailedOn(r) =>
          LET task == Head(recorders[r].flushChain)
          IN IsPrefix(task.chunkSamples,
                      recorders'[task.recorder].sampleBuffer)
    ]_vars

(***************************************************************************)
(* C4: no append call of a session is issued while an earlier append call  *)
(* of that session has not settled.                                        *)
(***************************************************************************)
C4_OneAppendInFlightPerSession ==
  /\ \A i \in 1..Len(requestLog) :
        requestLog[i].op = "append" => requestLog[i].unsettled = 0
  /\ \A sessionId \in SessionIds : InFlightAppends(Home, sessionId) <= 1

(***************************************************************************)
(* C5: when a session's finalize call is issued, every append call of the  *)
(* session has been issued and has settled: none is in flight at that      *)
(* moment and none is issued later.                                        *)
(***************************************************************************)
C5_AppendsSettledBeforeFinalize ==
  \A i \in 1..Len(requestLog) :
    requestLog[i].op = "finalize" =>
      /\ requestLog[i].unsettled = 0
      /\ \A j \in (i + 1)..Len(requestLog) :
            ~(requestLog[j].op = "append"
                /\ requestLog[j].sessionId = requestLog[i].sessionId)

(***************************************************************************)
(* C6: no set-target write carries the wattage of the last write that was  *)
(* acknowledged as successful since the guard was cleared.                 *)
(***************************************************************************)
C6_NoWriteOfAcknowledgedTarget ==
  lastErgWrite.watts # NULL => lastErgWrite.watts # lastErgWrite.acknowledged

\* at second 0 of the second segment the target is the acknowledged one and
\* nothing was written
C6_Witness ==
  /\ isRunning
  /\ InSegment
  /\ getSegmentIndexForElapsed(activeWorkout, elapsedSeconds) = 1
  /\ elapsedSeconds = SegmentAt(activeWorkout, elapsedSeconds).startSecond
  /\ currentTargetWatts = lastAckedWatts
  /\ lastErgWrite.elapsedSeconds < elapsedSeconds
  /\ ergInFlight = << >>

C9_PauseFreezesElapsed ==
  /\ (isPaused /\ pausedAt.elapsedSeconds # NULL) =>
        /\ elapsedSeconds = pausedAt.elapsedSeconds
        /\ Len(recordedSamples) = pausedAt.samples
        /\ intervalTimers = 0
  /\ firstTick.from # NULL => firstTick.to = firstTick.from + 1

\* paused after the first second, resumed, and the timer fired
C9_Witness ==
  /\ firstTick.from # NULL
  /\ firstTick.from > 0
  /\ isRunning

(***************************************************************************)
(* C10: at most one of isRunning, isPaused and isCompleted is true.        *)
(***************************************************************************)
C10_PhaseFlagsExclusive ==
  Cardinality({ f \in {"running", "paused", "completed"} :
                  \/ f = "running" /\ isRunning
                  \/ f = "paused" /\ isPaused
                  \/ f = "completed" /\ isCompleted }) <= 1

(***************************************************************************)
(* C11: the step in which elapsed reaches the total duration leaves        *)
(* elapsed at exactly the total and the phase Completed; and as long as    *)
(* the workout stays completed (no stop() and no start()), whatever is     *)
(* called and whatever timer fires, the target stays null and no           *)
(* set-target write is issued.                                             *)
(***************************************************************************)
C11_NoDispatchOnceCompleted ==
  [][ /\ ( /\ activeWorkout' # 0
           /\ elapsedSeconds' >= Workouts[activeWorkout'].totalDurationSeconds )
          => /\ elapsedSeconds' = Workouts[activeWorkout'].totalDurationSeconds
             /\ isCompleted'
             /\ currentTargetWatts' = NULL
             /\ (~isCompleted => ~isRunning' /\ ~isPaused')
      /\ ( /\ activeWorkout # 0 /\ activeWorkout' = activeWorkout
           /\ isCompleted /\ isCompleted' )
          => /\ currentTargetWatts' = NULL
             /\ lastErgWrite' = lastErgWrite
             /\ Len(ergInFlight') <= Len(ergInFlight)
    ]_vars

\* the workout ran to its end with a write issued on the way, and resume()
\* was called after that
C11_Witness ==
  /\ activeWorkout # 0
  /\ elapsedSeconds = Workouts[activeWorkout].totalDurationSeconds
  /\ isCompleted
  /\ isRunning
  /\ lastErgWrite.watts # NULL
  /\ lastSentTargetRef = NULL

(***************************************************************************)
(* Vocabulary of the properties of sessions: positions in the log          *)
(***************************************************************************)
LogPositions(op, sessionId) ==
  { i \in 1..Len(requestLog) :
      requestLog[i].op = op /\ requestLog[i].sessionId = sessionId }

\* the workout that asked for the session ended before the session's id
\* arrived
EndedBeforeCreated(sessionId) ==
  \E e \in LogPositions("ended", sessionId) :
    \E c \in LogPositions("created", sessionId) : e < c

\* no backend call is awaited and no flush is queued
NothingPending ==
  /\ sessionRequests = {}
  /\ finalizeRequest = NoRequest
  /\ \A r \in RecorderIds : recorders[r].flushChain = << >>

(***************************************************************************)
(* C12: for a session whose workout ended before its id arrived, finalize  *)
(* is sent only after the id has arrived, at most once, with the status    *)
(* asked for at the end of the workout; and it has been sent once nothing  *)
(* is pending any more.                                                    *)
(***************************************************************************)
C12_DeferredFinalizeSentOnce ==
  \A sessionId \in SessionIds :
    EndedBeforeCreated(sessionId) =>
      /\ \A f \in LogPositions("finalize", sessionId) :
           /\ \A c \in LogPositions("created", sessionId) : c < f
           /\ \A e \in LogPositions("ended", sessionId) :
                requestLog[f].status = requestLog[e].status
      /\ Cardinality(LogPositions("finalize", sessionId)) <= 1
      /\ NothingPending =>
           Cardinality(LogPositions("finalize", sessionId)) = 1

(***************************************************************************)
(* C13: when discardWorkoutSession is sent for a session, no append call   *)
(* of that session is awaiting its result and no flush is queued on the    *)
(* recorder; and no append call of the session is issued afterwards.       *)
(***************************************************************************)
C13_NoDiscardWhileFlushPending ==
  /\ \A d \in 1..Len(requestLog) :
       requestLog[d].op = "discard" =>
         /\ requestLog[d].unsettled = 0
         /\ \A a \in (d + 1)..Len(requestLog) :
              ~( /\ requestLog[a].op = "append"
                 /\ requestLog[a].sessionId = requestLog[d].sessionId )
  /\ discardRequest # NULL =>
       \A r \in RecorderIds :
         \A t \in 1..Len(recorders[r].flushChain) :
           recorders[r].flushChain[t].sessionId # discardRequest

(***************************************************************************)
(* C14: every chunk passed to appendWorkoutSampleChunk holds at least one  *)
(* sample and at most workoutSampleChunkSize samples.                      *)
(***************************************************************************)
C14_ChunkSizeWithinLimit ==
  \A r \in RecorderIds :
    FlushAwaiting(Home, r) =>
      LET chunkSamples == Head(recorders[r].flushChain).chunkSamples
      IN Len(chunkSamples) >= 1 /\ Len(chunkSamples) <= workoutSampleChunkSize


(***************************************************************************)
(* Arming                                                                  *)
(***************************************************************************)
\* a workout has been chosen and the engine has not been started for it
Armed == pendingWorkoutStart # 0 /\ activeWorkout = 0

\* the synthetic simulator is the telemetry source
SimulatorIsSource ==
  canUseFakeTelemetry /\ isWorkoutLifecycleActive
    /\ connectionState # "connected"

\* the target of the first second of a workout
FirstTarget(workout, ftpValue) ==
  getSegmentTargetWatts(Workouts[workout].segments[1], 0, ftpValue)

\* C15: while a workout is armed the engine stands still (no timer is
\* armed, elapsed does not change, no sample is emitted and no
\* startWorkoutSession is sent), and it is armed only while the trainer's
\* reading is not above 0 and the simulator is not the source; the engine
\* starts only in a render whose reading is above 0 or whose source is the
\* simulator, and it starts at elapsed 0 with the sample of second 0 as
\* the only sample, a new recorder whose chunk counter is 0, and the
\* target of second 0 written whatever was written before
C15_ArmedStartsOnFirstPower ==
  [][ /\ Armed =>
           /\ ~(livePowerWatts > 0)
           /\ ~SimulatorIsSource
           /\ intervalTimers = 0 /\ ~isRunning
      /\ (Armed /\ Armed') =>
           /\ elapsedSeconds' = elapsedSeconds
           /\ recordedSamples' = recordedSamples
           /\ sessionsStarted' = sessionsStarted
           /\ sessionRequests' = sessionRequests
           /\ requestLog' = requestLog
      /\ (activeWorkout = 0 /\ activeWorkout' # 0) =>
           /\ \/ livePowerWatts' > 0 /\ connectionState' = "connected"
              \/ SimulatorIsSource'
           /\ pendingWorkoutStart' = 0
           /\ isRunning' /\ ~isPaused' /\ ~isCompleted'
           /\ elapsedSeconds' = 0
           /\ intervalTimers' = 1
           /\ Len(recordedSamples') = 1
           /\ recordedSamples'[1].elapsedSeconds = 0
           /\ sessionsStarted' = sessionsStarted + 1
           /\ sessionRequests' = sessionRequests \cup {sessionsStarted'}
           /\ recorderRef' # 0
           /\ recorders'[recorderRef'].sessionId = NULL
           /\ recorders'[recorderRef'].nextChunkIndex = 0
           /\ Len(recorders'[recorderRef'].sampleBuffer) = 1
           /\ recorders'[recorderRef'].flushChain = << >>
           /\ lastErgWrite'.watts = FirstTarget(activeWorkout', ftp)
           /\ lastErgWrite'.elapsedSeconds = 0
           /\ lastSentTargetRef' \in {NULL, lastErgWrite'.watts}
    ]_vars

\* an armed workout has waited through a reading of 0 and has been started
\* by a reading above 0 of the connected trainer
C15_Witness ==
  /\ connectionState = "connected"
  /\ telemetryUpdates = 2
  /\ activeWorkout # 0 /\ isRunning
  /\ elapsedSeconds = 0
  /\ livePowerWatts > 0
  /\ sessionsStarted = 1


(***************************************************************************)
(* Trainer disconnect                                                      *)
(***************************************************************************)
Running == activeWorkout # 0 /\ isRunning /\ ~isPaused /\ ~isCompleted

\* the samples a step has emitted
NewSamples ==
  { recordedSamples'[i] :
      i \in (Len(recordedSamples) + 1)..Len(recordedSamples') }

\* the step is the trainer's disconnect while the workout is Running: the
\* phase, the elapsed seconds and the timer stay as they are
DisconnectKeepsPhase ==
  (Running /\ connectionState = "connected" /\ connectionState' # "connected")
    => /\ activeWorkout' = activeWorkout
       /\ isRunning' /\ ~isPaused' /\ ~isCompleted'
       /\ elapsedSeconds' = elapsedSeconds
       /\ intervalTimers' = intervalTimers

\* the step is a timer firing while the workout is Running and no trainer
\* is connected: elapsed moves on by 1 and the second's sample is emitted
DisconnectedTickSamples ==
  ( /\ Running /\ connectionState # "connected"
    /\ elapsedSeconds' # elapsedSeconds /\ activeWorkout' = activeWorkout )
    => /\ elapsedSeconds' = elapsedSeconds + 1
       /\ elapsedSeconds' < Workouts[activeWorkout].totalDurationSeconds
            => /\ Len(recordedSamples') = Len(recordedSamples) + 1
               /\ \A sample \in NewSamples :
                    sample.elapsedSeconds = elapsedSeconds'

\* the engine was started by a reading of the trainer, so that a trainer
\* that is not connected now has disconnected during the workout
StartedWithTrainer ==
  /\ activeWorkout # 0
  /\ recordedSamples # << >>
  /\ recordedSamples[1].livePowerWatts > 0

\* the samples emitted after the trainer has disconnected during the
\* workout, while it is not connected, carry no power
DisconnectedSamplesCarryNull ==
  (StartedWithTrainer /\ activeWorkout' = activeWorkout
     /\ connectionState # "connected" /\ connectionState' # "connected")
    => \A sample \in NewSamples : sample.livePowerWatts = NULL

\* C16 as stated: a trainer disconnect while Running leaves the phase as
\* it is, the workout keeps ticking, one sample per second, and every
\* sample emitted while the trainer is not connected has a null powerWatts
C16_DisconnectedSamplesHaveNullPower ==
  [][ /\ DisconnectKeepsPhase
      /\ DisconnectedTickSamples
      /\ DisconnectedSamplesCarryNull ]_vars

\* C16 amended: the same for an account that may not use the fake
\* telemetry source; with that account the fake source takes over when the
\* trainer disconnects during a workout
C16_DisconnectedSamplesNullUnlessSimulated ==
  [][ ~canUseFakeTelemetry =>
        /\ DisconnectKeepsPhase
        /\ DisconnectedTickSamples
        /\ DisconnectedSamplesCarryNull ]_vars

\* a workout of an account without the fake source has lost its trainer
\* while Running after a sample with power, and has sampled a later second
\* without power
C16_Witness ==
  /\ ~canUseFakeTelemetry
  /\ connectionState # "connected"
  /\ Running
  /\ Len(recordedSamples) >= 2
  /\ recordedSamples[1].livePowerWatts = 150
  /\ recordedSamples[Len(recordedSamples)].livePowerWatts = NULL
  /\ recordedSamples[Len(recordedSamples)].elapsedSeconds = elapsedSeconds


(***************************************************************************)
(* The finalized session                                                   *)
(***************************************************************************)
\* the workout has run to its last second and nobody has ended it
NaturallyCompleted ==
  /\ activeWorkout # 0 /\ isCompleted /\ ~interrupted
  /\ elapsedSeconds = Workouts[activeWorkout].totalDurationSeconds

\* every sample of the run reads the same power
ConstantPower ==
  /\ recordedSamples # << >>
  /\ recordedSamples[1].livePowerWatts # NULL
  /\ \A i \in 1..Len(recordedSamples) :
       recordedSamples[i].livePowerWatts = recordedSamples[1].livePowerWatts

\* no call to the backend has failed since the run was started (the start
\* effect clears the message and every failed call sets it)
NoStorageFailure == recordingErrorMessage = "none"

InRamp ==
  /\ activeWorkout \in RampWorkoutIds
  /\ ftp > 0
  /\ Workouts[activeWorkout].segments[1].kind = "ramp"
  /\ Workouts[activeWorkout].segments[1].durationSeconds >= 1

\* the target at the ramp's first second is round(ftpLow * ftp), as the
\* function computes it and as the hook shows it at that second (a
\* start() at second 0 of the same workout leaves no target shown)
RampStartsAtLow ==
  LET segment == Workouts[activeWorkout].segments[1]
  IN /\ getSegmentTargetWatts(segment, 0, ftp)
          = MathRound(segment.ftpLow * ftp, 100)
     /\ (isRunning /\ elapsedSeconds = 0 /\ currentTargetWatts # NULL)
          => currentTargetWatts = MathRound(segment.ftpLow * ftp, 100)

\* the target at the ramp's last second is round(ftpHigh * ftp)
RampEndsAtHigh ==
  LET segment == Workouts[activeWorkout].segments[1]
  IN /\ getSegmentTargetWatts(segment, segment.durationSeconds - 1, ftp)
          = MathRound(segment.ftpHigh * ftp, 100)
     /\ ( /\ isRunning /\ elapsedSeconds = segment.durationSeconds - 1
          /\ currentTargetWatts # NULL )
          => currentTargetWatts = MathRound(segment.ftpHigh * ftp, 100)

\* C18 as stated: for every ramp segment with durationSeconds >= 1 and
\* every ftp > 0 the target at second 0 is round(ftpLow * ftp) and the
\* target at second durationSeconds - 1 is round(ftpHigh * ftp)
C18_RampEndsAtLowAndHigh ==
  InRamp => RampStartsAtLow /\ RampEndsAtHigh

\* C18 amended: the target at second 0 is round(ftpLow * ftp) for every
\* ramp; the target at second durationSeconds - 1 is round(ftpHigh * ftp)
\* for the ramps of 2 seconds or more (a ramp of 1 second has one target,
\* that of second 0)
C18_RampOfTwoSecondsEndsAtHigh ==
  InRamp =>
    /\ RampStartsAtLow
    /\ Workouts[activeWorkout].segments[1].durationSeconds >= 2
         => RampEndsAtHigh

\* the hook is at the last second of a ramp of more than 2 seconds whose
\* ends round to different targets
C18_Witness ==
  /\ InRamp
  /\ isRunning
  /\ Workouts[activeWorkout].segments[1].durationSeconds > 2
  /\ elapsedSeconds = Workouts[activeWorkout].segments[1].durationSeconds - 1
  /\ currentTargetWatts
       = MathRound(Workouts[activeWorkout].segments[1].ftpHigh * ftp, 100)
  /\ currentTargetWatts
       # MathRound(Workouts[activeWorkout].segments[1].ftpLow * ftp, 100)


(***************************************************************************)
(* skipSegment                                                             *)
(***************************************************************************)
\* the index (from 1) of the segment that holds the elapsed second, 0 when
\* there is none
ActiveSegment ==
  IF activeWorkout = 0 THEN 0
  ELSE LET segments == Workouts[activeWorkout].segments
           holding == { i \in 1..Len(segments) :
                          /\ segments[i].startSecond <= elapsedSeconds
                          /\ elapsedSeconds < segments[i].startSecond
                                                + segments[i].durationSeconds }
       IN IF holding = {} THEN 0 ELSE CHOOSE i \in holding : TRUE

\* C19: a skipSegment() call with an active segment that is not the last
\* one sets elapsed to the next segment's startSecond and leaves the phase
\* flags as they are; with the last segment active it sets elapsed to
\* totalDurationSeconds and the phase to Completed; with no active workout
\* or no active segment it changes nothing
C19_SkipSegmentJumpsToNextStart ==
  [][ HookSkipSegment =>
        IF ActiveSegment = 0
        THEN UNCHANGED << activeWorkout, isRunning, isPaused, isCompleted,
                          elapsedSeconds, currentTargetWatts,
                          recordedSamples, intervalTimers, lastErgWrite >>
        ELSE /\ activeWorkout' = activeWorkout
             /\ IF ActiveSegment = Len(Workouts[activeWorkout].segments)
                THEN /\ elapsedSeconds'
                          = Workouts[activeWorkout].totalDurationSeconds
                     /\ isCompleted' /\ ~isRunning' /\ ~isPaused'
                ELSE /\ elapsedSeconds'
                          = Workouts[activeWorkout]
                              .segments[ActiveSegment + 1].startSecond
                     /\ isRunning' = isRunning
                     /\ isPaused' = isPaused
                     /\ isCompleted' = isCompleted
    ]_vars

\* a running workout has skipped from its first segment into its second:
\* the sample of the second segment's first second follows that of second 0
C19_Witness ==
  /\ activeWorkout # 0 /\ isRunning /\ ~isPaused /\ ~isCompleted
  /\ interrupted
  /\ ActiveSegment = 2
  /\ elapsedSeconds = Workouts[activeWorkout].segments[2].startSecond
  /\ elapsedSeconds > 1
  /\ Len(recordedSamples) = 2
  /\ recordedSamples[1].elapsedSeconds = 0
  /\ recordedSamples[2].elapsedSeconds = elapsedSeconds


(***************************************************************************)
(* The tick                                                                *)
(***************************************************************************)
\* C20: at most one periodic timer is armed at any time, and none unless
\* the workout is Running, so that no timer firing changes elapsed while
\* the phase is Idle, Paused or Completed; each timer firing while Running
\* increases elapsed by exactly 1 and never above totalDurationSeconds
C20_OneTimerTicksByOne ==
  [][ /\ intervalTimers <= 1
      /\ intervalTimers' <= 1
      /\ intervalTimers' > 0 =>
           /\ activeWorkout' # 0
           /\ isRunning' /\ ~isPaused' /\ ~isCompleted'
           /\ elapsedSeconds' < Workouts[activeWorkout'].totalDurationSeconds
      /\ TimerFires =>
           /\ Running
           /\ elapsedSeconds' = elapsedSeconds + 1
           /\ elapsedSeconds' <= Workouts[activeWorkout].totalDurationSeconds
           /\ activeWorkout' = activeWorkout
      /\ (~Running /\ activeWorkout' = activeWorkout
            /\ isRunning' = isRunning /\ isPaused' = isPaused
            /\ isCompleted' = isCompleted)
           => elapsedSeconds' = elapsedSeconds \/ HookSkipSegment
    ]_vars

\* the timer of a running workout has fired after the first second and
\* has moved elapsed on by 1, below the total
C20_Witness ==
  /\ Running
  /\ intervalTimers = 1
  /\ ~interrupted
  /\ elapsedSeconds = 2
  /\ Len(recordedSamples) = 3
  /\ elapsedSeconds < Workouts[activeWorkout].totalDurationSeconds

(***************************************************************************)
(* C21, C22, C26, C27: the trainer hook                                    *)
(***************************************************************************)
\* the decoder of the notification handled last returned a negative number
NegativeReading ==
  notification.reading # NoReading /\ notification.reading < 0

\* C21: a notification whose decoded power or heart rate is negative is
\* treated as no reading: it changes neither livePowerWatts nor
\* heartRateBpm
C21_NegativeReadingIsNoReading ==
  [][NegativeReading' =>
       /\ livePowerWatts' = livePowerWatts
       /\ heartRateBpm' = heartRateBpm]_vars

\* the payload of the write that setErgTarget() has just issued
IssuedPayload == ftmsInFlight[Len(ftmsInFlight)]

\* C22: the manual set-ERG path issues no set-target write for the wattage
\* of the last write that was answered as successful
C22_ManualPathSkipsWrittenTarget ==
  [][(Len(ftmsInFlight') > Len(ftmsInFlight) /\ ftmsWritten # << >>) =>
       getInt16(IssuedPayload', 1) # getInt16(ftmsWritten, 1)]_vars

\* the flags word of the notified value has the power-present bit clear,
\* or the value is too short to hold a flags word
PowerPresentBitClear ==
  \/ Len(notification.value) < 2
  \/ ~HasFlag(getUint16(notification.value, 0), 64)

\* C26: an indoor-bike-data value whose flags word has bit 6 clear, or
\* that is shorter than 2 bytes, decodes to no reading, whatever its
\* length and its other flag bits
C26_NoPowerBitNoReading ==
  (notification.characteristic = "indoor-bike" /\ PowerPresentBitClear) =>
    notification.reading = NoReading

\* an indoor-bike-data value of 4 bytes that has bit 6 clear and a power
\* of 65 where the field would be was decoded to no reading
C26_Witness ==
  /\ notification.characteristic = "indoor-bike"
  /\ notification.value = << 129, 0, 65, 0 >>
  /\ PowerPresentBitClear
  /\ notification.reading = NoReading

\* C27: every set-target command that was issued for a target w in
\* 0..2000 has 3 bytes, starts with the opcode 0x05 and holds w as the
\* signed 16-bit little-endian number at offset 1
C27_SetTargetPowerRoundTrips ==
  \A i \in 1..Len(ftmsInFlight) :
    LET payload == ftmsInFlight[i]
    IN  /\ ergTargetWatts \in 0..2000
        /\ Len(payload) = 3
        /\ payload[1] = 5
        /\ getInt16(payload, 1) = ergTargetWatts

\* the command for 250 W is on its way to the control point
C27_Witness ==
  /\ ergTargetWatts = 250
  /\ ftmsInFlight = << << 5, 250, 0 >> >>

(***************************************************************************)
(* C23, C24, C25: the backend                                              *)
(***************************************************************************)
\* the chunks stored for a session
StoredChunks(sessionId) ==
  SelectSeq(workoutSampleChunks, LAMBDA chunk : chunk.sessionId = sessionId)

\* this step is an appendWorkoutSampleChunk call whose chunkIndex is
\* already stored for its session
AppendOfStoredIndex ==
  /\ backendCall'.op = "append"
  /\ \E i \in 1..Len(workoutSampleChunks) :
       /\ workoutSampleChunks[i].sessionId = backendCall'.sessionId
       /\ workoutSampleChunks[i].chunkIndex = backendCall'.chunkIndex

\* the call returned inserted = false and nothing stored has changed
RejectedAsNoOp ==
  /\ backendCall'.result \in
       {"empty_chunk", "session_not_recording", "duplicate_chunk"}
  /\ UNCHANGED << workoutSampleChunks, workoutSessions >>

\* C23: appendWorkoutSampleChunk called with a chunkIndex that is already
\* stored for the session returns without error, with inserted = false,
\* and leaves the stored chunks and the session's sampleCount unchanged
C23_StoredIndexIsNoOp ==
  [][AppendOfStoredIndex => RejectedAsNoOp]_vars

\* C23 (as amended): the same for every call that carries at most
\* chunkSizeLimit samples
C23_StoredIndexWithinLimitIsNoOp ==
  [][(AppendOfStoredIndex /\ backendCall'.sampleCount <= chunkSizeLimit)
       => RejectedAsNoOp]_vars

\* the chunk of one sample was sent again under its stored index to a
\* session that is still recording, and the session still counts 1 sample
C23_Witness ==
  /\ backendCall.op = "append"
  /\ backendCall.result = "duplicate_chunk"
  /\ backendCall.sampleCount = 1
  /\ workoutSessions[backendCall.sessionId].status = "recording"
  /\ workoutSessions[backendCall.sessionId].sampleCount = 1
  /\ Len(StoredChunks(backendCall.sessionId)) = 1
  /\ StoredChunks(backendCall.sessionId)[1].chunkIndex = backendCall.chunkIndex

\* C24: the export of a session whose status is "recording" fails, and an
\* export that produced a FIT file is the export of a session that was
\* finalized as completed or ended
C24_RecordingSessionIsNotExported ==
  backendCall.op = "export" =>
    LET status == workoutSessions[backendCall.sessionId].status
    IN  /\ status = "recording" => backendCall.result = "still recording"
        /\ backendCall.result = "fit" => status \in {"completed", "ended"}

\* the export of a recording session that has samples stored has failed
C24_Witness ==
  /\ backendCall.op = "export"
  /\ backendCall.result = "still recording"
  /\ workoutSessions[backendCall.sessionId].status = "recording"
  /\ workoutSessions[backendCall.sessionId].sampleCount > 0

\* this step is an export of a session of the table that has no samples
\* stored
ExportOfNoSamples ==
  /\ backendCall'.op = "export"
  /\ workoutSessions[backendCall'.sessionId].status # "none"
  /\ StoredChunks(backendCall'.sessionId) = << >>

\* the export has failed with the no-samples error, has produced no FIT
\* output and has changed nothing stored
FailedForNoSamples ==
  /\ backendCall'.result = "no samples"
  /\ backendCall'.records = << >>
  /\ UNCHANGED << workoutSampleChunks, workoutSessions >>

\* C25: the export of a session that has zero stored samples fails with
\* the no-samples error, produces no FIT output and changes neither the
\* session nor the chunks
C25_NoSamplesNoExport ==
  [][ExportOfNoSamples => FailedForNoSamples]_vars

\* C25 (as amended): the same for a session that was finalized; the export
\* of a session that is still recording fails as well and changes nothing,
\* with the still-recording error
C25_FinalizedNoSamplesNoExport ==
  [][ExportOfNoSamples =>
       IF workoutSessions[backendCall'.sessionId].status = "recording"
       THEN /\ backendCall'.result = "still recording"
            /\ backendCall'.records = << >>
            /\ UNCHANGED << workoutSampleChunks, workoutSessions >>
       ELSE FailedForNoSamples]_vars

\* the export of a completed session without chunks has failed
C25_Witness ==
  /\ backendCall.op = "export"
  /\ backendCall.result = "no samples"
  /\ workoutSessions[backendCall.sessionId].status = "completed"
  /\ workoutSessions[backendCall.sessionId].sampleCount = 0
  /\ StoredChunks(backendCall.sessionId) = << >>

(***************************************************************************)
(* C28: the Paused phase                                                   *)
(***************************************************************************)
Paused == activeWorkout # 0 /\ isPaused /\ ~isRunning /\ ~isCompleted

\* a timer firing, a telemetry update, the settling of a set-target write
\* or a skipSegment() call
EventWhilePaused ==
  \/ TimerFires
  \/ \E watts \in PowerValues : TelemetryUpdate(watts)
  \/ \E i \in 1..MaxErgInFlight, sent \in BOOLEAN : ErgWriteSettles(i, sent)
  \/ HookSkipSegment

\* the step has issued no set-target write
NoWriteIssued ==
  /\ lastErgWrite' = lastErgWrite
  /\ Len(ergInFlight') <= Len(ergInFlight)

\* C28: a timer firing, a telemetry update, a write acknowledgement or a
\* skipSegment() call in the Paused phase issues no set-target write and
\* leaves currentTargetWatts unchanged
C28_PausedKeepsTarget ==
  [][(Paused /\ EventWhilePaused) =>
       /\ NoWriteIssued
       /\ currentTargetWatts' = currentTargetWatts]_vars

\* C28 (as amended): such a step issues no set-target write, and leaves
\* currentTargetWatts unchanged as long as the phase stays Paused; the
\* only such step that leaves the Paused phase is skipSegment() in the
\* last segment, which completes the workout and sets currentTargetWatts
\* to null
C28_PausedKeepsTargetUntilSkippedToEnd ==
  [][(Paused /\ EventWhilePaused) =>
       /\ NoWriteIssued
       /\ IF Paused'
          THEN currentTargetWatts' = currentTargetWatts
          ELSE /\ HookSkipSegment
               /\ ActiveSegment = Len(Workouts[activeWorkout].segments)
               /\ isCompleted' /\ ~isPaused' /\ ~isRunning'
               /\ currentTargetWatts' = NULL]_vars

\* the workout was paused in its first segment and skipSegment() has moved
\* it to the start of the second, whose target differs: the phase is
\* still Paused and the target is still the one of the first segment
C28_Witness ==
  /\ Paused
  /\ ActiveSegment = 2
  /\ elapsedSeconds = Workouts[activeWorkout].segments[2].startSecond
  /\ currentTargetWatts = FirstTarget(activeWorkout, ftp)
  /\ currentTargetWatts #
       getSegmentTargetWatts(Workouts[activeWorkout].segments[2], 0, ftp)
  /\ telemetryUpdates > 0

(***************************************************************************)
(* C29: the samples of one run                                             *)
(***************************************************************************)
\* C29: the elapsedSeconds of the samples emitted since the last start()
\* are strictly increasing
C29_SampleSecondsIncrease ==
  \A i \in 1..(Len(recordedSamples) - 1) :
    recordedSamples[i].elapsedSeconds < recordedSamples[i + 1].elapsedSeconds

\* a run with a telemetry update, a skipped segment and a tick after a
\* resume() has emitted at least three samples
C29_Witness ==
  /\ activeWorkout # 0
  /\ Len(recordedSamples) >= 3
  /\ telemetryUpdates > 0
  /\ firstTick.from # NULL
  /\ \E i \in 1..(Len(recordedSamples) - 1) :
       recordedSamples[i + 1].elapsedSeconds
         > recordedSamples[i].elapsedSeconds + 1

(***************************************************************************)
(* C30: a failed flush and the flushes queued behind it                    *)
(***************************************************************************)
\* the appendWorkoutSampleChunk call of the flush at the head of r's chain
\* fails
AppendFails(r) == AppendWorkoutSampleChunkSettles(r, FALSE)

\* the append calls a step has issued
NewAppends ==
  SelectSeq(SubSeq(requestLog', Len(requestLog) + 1, Len(requestLog')),
            LAMBDA request : request.op = "append")

\* a flush is queued behind the one at the head of r's chain
QueuedBehind(r) == Len(recorders[r].flushChain) > 1

\* the start effect's block that awaits the flush at the head of r's
\* chain goes on to finalize, which queues a forced flush on the current
\* recorder's chain: the flush runs in the step when that chain is r's or
\* is empty
FinalizePending(r) ==
  /\ Head(recorders[r].flushChain).waiter.kind = "start"
  /\ pendingFinalizeStatusRef # "none"
  /\ ~isFinalizingWorkoutRef
  /\ recorderRef = r \/ recorders[recorderRef].flushChain = << >>

\* a flush behind the head of r's chain finds something to send when it
\* runs: a session id, and a full chunk or, for a forced flush, any sample
HasChunkToSend(r) ==
  LET recorder == recorders[recorderRef]
  IN  /\ recorder.sessionId # NULL
      /\ \/ Len(recorder.sampleBuffer) >= workoutSampleChunkSize
         \/ /\ \/ \E i \in 2..Len(recorders[r].flushChain) :
                    recorders[r].flushChain[i].forceFlush
               \/ FinalizePending(r)
            /\ Len(recorder.sampleBuffer) > 0

\* no flush of r's chain waits for a flush that is over: the chain is
\* empty or its head awaits its append
NotStalled(r) ==
  recorders[r].flushChain = << >> \/ Head(recorders[r].flushChain).awaiting

ConnectionTransitions ==
  { << "idle", "connecting" >>, << "connecting", "connected" >>,
    << "connecting", "error" >>, << "error", "connecting" >>,
    << "connected", "idle" >> }

\* C31: connectionState changes only along idle->connecting,
\* connecting->connected, connecting->error, error->connecting and
\* connected->idle
C31_ConnectionStateMachine ==
  [][connectionState' # connectionState =>
       << connectionState, connectionState' >> \in ConnectionTransitions]_vars

(***************************************************************************)
(* C35, C40: the finalized session on the backend                          *)
(***************************************************************************)
Finalized(sessionId) ==
  workoutSessions[sessionId].status \in {"completed", "ended"}

RECURSIVE StoredSamples(_, _)
\* the samples of the chunks stored for a session
StoredSamples(chunks, sessionId) ==
  IF chunks = << >> THEN << >>
  ELSE (IF Head(chunks).sessionId = sessionId THEN Head(chunks).samples
        ELSE << >>) \o StoredSamples(Tail(chunks), sessionId)

\* the readings of a metric among samples: the values that are numbers
Readings(samples, metric) ==
  SelectSeq([i \in 1..Len(samples) |-> samples[i][metric]],
            LAMBDA value : value # NULL)

RECURSIVE SumOf(_)
SumOf(values) ==
  IF values = << >> THEN 0 ELSE Head(values) + SumOf(Tail(values))

MaxOf(values) ==
  CHOOSE v \in {values[i] : i \in 1..Len(values)} :
    \A i \in 1..Len(values) : v >= values[i]

\* the average and the maximum of a session are those of the readings, and
\* are absent when there is no reading
AggregatesOf(session, average, max, readings) ==
  IF readings = << >>
  THEN session[average] = NULL /\ session[max] = NULL
  ELSE /\ session[average] = MathRound(SumOf(readings), Len(readings))
       /\ session[max] = MaxOf(readings)

\* C35: the averages and maxima of a finalized session (power, heart rate,
\* cadence) are computed over exactly the stored samples in which the
\* metric is a number, and a metric that is null in every stored sample
\* has no average and no maximum
C35_AggregatesOverReadings ==
  \A sessionId \in 1..MaxRuns :
    Finalized(sessionId) =>
      LET session == workoutSessions[sessionId]
          samples == StoredSamples(workoutSampleChunks, sessionId)
      IN /\ session.sampleCount = Len(samples)
         /\ AggregatesOf(session, "averagePowerWatts", "maxPowerWatts",
                         Readings(samples, "powerWatts"))
         /\ AggregatesOf(session, "averageHeartRateBpm", "maxHeartRateBpm",
                         Readings(samples, "heartRateBpm"))
         /\ AggregatesOf(session, "averageCadenceRpm", "maxCadenceRpm",
                         Readings(samples, "cadenceRpm"))

\* a session is finalized from two samples of which one has a power
\* reading, both have a heart rate and none has a cadence
C35_Witness ==
  \E sessionId \in 1..MaxRuns :
    /\ Finalized(sessionId)
    /\ workoutSessions[sessionId].sampleCount = 2
    /\ workoutSessions[sessionId].averagePowerWatts = 151
    /\ workoutSessions[sessionId].averageHeartRateBpm = 131
    /\ workoutSessions[sessionId].maxHeartRateBpm = 141
    /\ workoutSessions[sessionId].averageCadenceRpm = NULL
    /\ workoutSessions[sessionId].maxCadenceRpm = NULL

\* C40: a finalizeWorkoutSession call (with either status) or an
\* appendWorkoutSampleChunk call for a session that is completed or ended
\* changes neither the session (status, aggregates, sampleCount) nor its
\* stored chunks
C40_FinalizedSessionIsFrozen ==
  [][\A sessionId \in 1..MaxRuns :
       ( /\ Finalized(sessionId)
         /\ backendCall'.op \in {"finalize", "append"} ) =>
         /\ workoutSessions'[sessionId] = workoutSessions[sessionId]
         /\ StoredChunks(sessionId)' = StoredChunks(sessionId)]_vars

\* an append of a chunk index that is not stored, for a completed session
\* with a chunk, has returned
C40_Witness ==
  /\ backendCall.op = "append"
  /\ backendCall.result = "session_not_recording"
  /\ workoutSessions[backendCall.sessionId].status = "completed"
  /\ StoredChunks(backendCall.sessionId) # << >>
  /\ \A i \in 1..Len(workoutSampleChunks) :
       workoutSampleChunks[i].sessionId = backendCall.sessionId =>
         workoutSampleChunks[i].chunkIndex # backendCall.chunkIndex

(***************************************************************************)
(* C37: the target of the samples                                          *)
(***************************************************************************)
\* C37: every sample emitted while a segment is active carries the target
\* the dispatch policy computes for that segment at the sample's elapsed
\* second, the sample at elapsed 0 and the first sample of a segment
\* included
C37_SampleCarriesScheduledTarget ==
  activeWorkout # 0 =>
    \A i \in 1..Len(recordedSamples) :
      recordedSamples[i].segmentIndex >= 0 =>
        recordedSamples[i].targetWatts =
          ScheduledTarget(activeWorkout, recordedSamples[i].elapsedSeconds,
                          ftp)

(***************************************************************************)
(* C38: the idempotence guard and the acknowledgements                     *)
(***************************************************************************)
\* C38: once every set-target write has settled, the idempotence guard is
\* empty if no write has been issued since start() or stop() cleared it
C38_GuardEmptyWithoutWrite ==
  (ergInFlight = << >> /\ lastErgWrite = NoErgWrite) =>
    lastSentTargetRef = NULL

(***************************************************************************)
(* C32, C33: the handles of the trainer hook                               *)
(***************************************************************************)
\* C32: while connectionState is idle the power characteristic, the
\* control point and the device are released and livePowerWatts is null,
\* also when the disconnect has arrived while connectTrainer() was
\* resolving the control point
C32_IdleHoldsNoHandle ==
  connectionState = "idle" =>
    /\ ~powerCharacteristicRef
    /\ ~controlCharacteristicRef
    /\ ~trainerDeviceRef
    /\ livePowerWatts = NULL

\* the trainer has notified a reading and has been disconnected, by the
\* button or by itself, while connectTrainer() was resolving the control
\* point or writing the request-control command
C32_Witness ==
  /\ connectionState = "idle"
  /\ statusMessage = "disconnected"
  /\ controlStep = "rejected"
  /\ notification.reading = 65
  /\ livePowerWatts = NULL

\* C33: when the control point cannot be resolved or the request-control
\* write fails, connectionState and the power subscription stay as they
\* are and the control point is null; and a set-target attempt without a
\* control point writes nothing to the device
C33_ControlFailureIsReadOnly ==
  [][/\ ControlStepRejects =>
          /\ connectionState' = connectionState
          /\ powerCharacteristicRef' = powerCharacteristicRef
          /\ powerListener' = powerListener
          /\ ~controlCharacteristicRef'
     /\ (setErgTarget /\ ~controlCharacteristicRef) =>
          /\ ftmsInFlight' = ftmsInFlight
          /\ ftmsWritten' = ftmsWritten]_vars

\* the trainer is connected and notifies its power, the control point has
\* failed, and a set-target attempt has returned without a write
C33_Witness ==
  /\ connectionState = "connected"
  /\ controlStep = "none"
  /\ ~controlCharacteristicRef
  /\ powerCharacteristicRef /\ powerListener
  /\ livePowerWatts = 65
  /\ statusMessage = "no control point"
  /\ ftmsInFlight = << >>
  /\ ftmsWritten = << >>

(***************************************************************************)
(* C34: notifications that do not decode                                   *)
(***************************************************************************)
\* C34: a notification whose value does not decode leaves livePowerWatts
\* and heartRateBpm as they are
C34_UndecodedKeepsReading ==
  [][notification'.reading = NoReading =>
       /\ livePowerWatts' = livePowerWatts
       /\ heartRateBpm' = heartRateBpm]_vars

\* a power notification that does not decode has followed one that read
\* 65 W
C34_Witness ==
  /\ notification.characteristic \in {"cycling-power", "indoor-bike"}
  /\ notification.reading = NoReading
  /\ livePowerWatts = 65

(***************************************************************************)
(* C36, C39: the sessions on the backend when every call succeeds          *)
(***************************************************************************)
\* a sample of the hook as the backend stores it
StoredSample(sample) ==
  normalizeSample([elapsedSeconds |-> sample.elapsedSeconds,
                   segmentIndex |-> sample.segmentIndex,
                   targetWatts |-> sample.targetWatts,
                   powerWatts |-> sample.livePowerWatts,
                   cadenceRpm |-> NULL, heartRateBpm |-> NULL])

\* no appendWorkoutSampleChunk call in flight is one the mutation rejects
EveryAppendSucceeds ==
  \A r \in RecorderIds :
    FlushAwaiting(Home, r) =>
      LET task == Head(recorders[r].flushChain)
      IN ~appendWorkoutSampleChunkThrows(Home, task.sessionId,
                                         task.chunkIndex, task.chunkSamples)

\* C36: when finalizeWorkoutSession finalizes the session of the run the
\* hook is in or has last been in, the samples stored for the session are
\* the samples the hook has emitted for that run, each stored once
C36_FinalizedSessionStoresEmittedSamples ==
  [][\A sessionId \in 1..MaxRuns :
       ( /\ sessionId = sessionsStarted
         /\ workoutSessions[sessionId].status = "recording"
         /\ Finalized(sessionId)' ) =>
         LET stored == StoredSamples(workoutSampleChunks', sessionId)
         IN /\ Len(stored) = Len(recordedSamples')
            /\ {stored[i] : i \in 1..Len(stored)} =
                 {StoredSample(recordedSamples'[i]) :
                    i \in 1..Len(recordedSamples')}]_vars

\* C39: once the workout view has been dismissed and no storage call is
\* in flight, no session created so far is still recording
C39_NoRecordingSessionOnceDismissed ==
  ( /\ activeWorkout = 0
    /\ pendingWorkoutStart = 0
    /\ NothingPending ) =>
    \A sessionId \in 1..sessionsStarted :
      workoutSessions[sessionId].status # "recording"

====
